---- MODULE Spec2Model ----
(***************************************************************************)
(* Model of the spotistats ingestion job (backend/main.py,                 *)
(* backend/src/database.py, backend/src/normalizer.py,                     *)
(* backend/src/models.py).                                                 *)
(*                                                                         *)
(* One run of process_spotify_data is a sequence of steps (credentials,    *)
(* engine and session, token, high-water mark, fetch, one step per item,   *)
(* commit, exception handler, finally).  The store is the committed        *)
(* database `db` and the session's transaction view `tx`.                  *)
(*                                                                         *)
(* The session follows SQLAlchemy's Session: a flush that fails rolls the  *)
(* session's transaction back and leaves the session inactive until        *)
(* rollback() is called; every statement, flush or commit on an inactive   *)
(* session raises (PendingRollbackError, a SQLAlchemyError).               *)
(***************************************************************************)
EXTENDS Integers, Sequences, FiniteSets, TLC

\* ------------------------------------------------------------------ bounds
MaxTime == 3
MaxPage == 3
MaxRuns == 2
MaxListens == 2

\* ------------------------------------------------------------ value spaces
\* A missing timestamp (SQL NULL, Python None).
NoTime == 0
Times == 1..MaxTime
\* played_at as it arrives in the payload: an ISO string of instant t is t,
\* a missing key is NoTime, a string that fromisoformat rejects is BadTime.
BadTime == -1

\* The catalog identifiers carried by the payloads.
TrackId == "trackA"
ArtistId == "artistA"
AlbumId == "albumA"
EpisodeId == "episodeE"
SeriesId == "showS"
NoId == "null"

\* The names the payloads carry for these identifiers.
TrackName == "Track A"
ArtistName == "Artist A"
AlbumName == "Album A"
EpisodeName == "Episode E"
SeriesName == "Show S"
Markets == "US"

\* Artist.genres: Python None, the empty list, a list of genres.
NoGenres == "None"
EmptyGenres == "[]"

\* The 'track' sub-structure of a raw item: absent, a track, an episode, an
\* episode without 'show', or a structure with an unrecognized 'type'.
ItemKinds == {"absent", "track", "episode", "episode_no_show", "unknown"}

RawItem(kind, played_at) == [kind |-> kind, played_at |-> played_at]

\* models.py: the six tables.  A table is a set of rows.
EmptyDb ==
    [listens |-> {}, artists |-> {}, albums |-> {}, tracks |-> {},
     series |-> {}, episodes |-> {}]

Max(S) == CHOOSE x \in S : \A y \in S : y <= x

\* ------------------------------------------------------------- normalizer
\* A release_date as the payload carries it: Python None, or a string read as
\* runs of digits (w digits that spell the number v) joined by one separator.
\* The empty string has no run.
NoDateStr == [kind |-> "None", sep |-> "-", fields |-> <<>>]

DateStr(sep, fields) == [kind |-> "str", sep |-> sep, fields |-> fields]

\* datetime.date: the proleptic Gregorian calendar, years 1..9999.
IsLeap(y) == y % 4 = 0 /\ (y % 100 # 0 \/ y % 400 = 0)

DaysInMonth(y, m) ==
    IF m \in {4, 6, 9, 11} THEN 30
    ELSE IF m = 2 THEN (IF IsLeap(y) THEN 29 ELSE 28)
    ELSE 31

ValueError == [ok |-> FALSE, date |-> [year |-> 0, month |-> 0, day |-> 0]]

\* datetime.datetime.strptime(date_str, format) for the formats '%Y',
\* '%Y-%m' and '%Y-%m-%d' (n = 1, 2, 3 directives): %Y takes exactly four
\* digits, %m one or two digits spelling 1..12, %d one or two digits spelling
\* 1..31, the separators are '-', nothing may remain; a directive that is
\* not in the format defaults to 1; a date the calendar does not hold is a
\* ValueError.
Strptime(date_str, n) ==
    LET f == date_str.fields IN
    IF /\ Len(f) = n
       /\ (n > 1 => date_str.sep = "-")
       /\ f[1].w = 4
       /\ (n >= 2 => f[2].w \in 1..2 /\ f[2].v \in 1..12)
       /\ (n >= 3 => f[3].w \in 1..2 /\ f[3].v \in 1..31)
    THEN LET y == f[1].v
             m == IF n >= 2 THEN f[2].v ELSE 1
             d == IF n >= 3 THEN f[3].v ELSE 1
         IN IF y >= 1 /\ d <= DaysInMonth(y, m)
            THEN [ok |-> TRUE, date |-> [year |-> y, month |-> m, day |-> d]]
            ELSE ValueError
    ELSE ValueError

NoDate == [res |-> "None"]

\* A parse_release_date without its except clause.
OnValueErrorMutant == [res |-> "raise"]

\* normalizer.py 26-29: except ValueError: return None.
OnValueError == NoDate

\* normalizer.py 8-29.
ParseReleaseDate(date_str, precision) ==
    IF date_str.kind = "None" \/ date_str.fields = <<>> THEN NoDate
    ELSE IF precision = "day"
    THEN LET r == Strptime(date_str, 3) IN
         IF r.ok THEN [res |-> "date", date |-> r.date] ELSE OnValueError
    ELSE IF precision = "month"
    THEN LET r == Strptime(date_str, 2) IN
         IF r.ok THEN [res |-> "date", date |-> [r.date EXCEPT !.day = 1]]
         ELSE OnValueError
    ELSE IF precision = "year"
    THEN LET r == Strptime(date_str, 1) IN
         IF r.ok THEN [res |-> "date",
                       date |-> [r.date EXCEPT !.month = 1, !.day = 1]]
         ELSE OnValueError
    ELSE NoDate

\* datetime.fromisoformat(played_at_raw.replace('Z', '+00:00')):
\* [ok |-> TRUE, dt |-> instant] or ValueError.
ParsePlayedAt(raw) ==
    IF raw \in Times THEN [ok |-> TRUE, dt |-> raw]
    ELSE [ok |-> FALSE, dt |-> NoTime]

\* _normalize_track_data: the Artist, Album, Track and Listen drafts.
NormalizeTrackData(played_at_datetime) ==
    [type |-> "track",
     artist |-> [artist_id |-> ArtistId, name |-> ArtistName,
                 genres |-> EmptyGenres],
     album |-> [album_id |-> AlbumId, name |-> AlbumName,
                primary_artist_id |-> ArtistId],
     track |-> [track_id |-> TrackId, name |-> TrackName,
                available_markets |-> Markets, album_id |-> AlbumId,
                last_played_at |-> played_at_datetime],
     listen |-> [played_at |-> played_at_datetime, item_type |-> "track",
                 track_id |-> TrackId, episode_id |-> NoId,
                 artist_id |-> ArtistId, album_id |-> AlbumId]]

\* normalize_episode_item: the PodcastSeries, PodcastEpisode and Listen drafts.
NormalizeEpisodeItem(played_at_datetime) ==
    [type |-> "episode",
     series |-> [series_id |-> SeriesId, name |-> SeriesName],
     episode |-> [episode_id |-> EpisodeId, name |-> EpisodeName,
                  series_id |-> SeriesId],
     listen |-> [played_at |-> played_at_datetime, item_type |-> "episode",
                 track_id |-> NoId, episode_id |-> EpisodeId,
                 artist_id |-> NoId, album_id |-> NoId]]

\* A normalize_item that takes every type tag other than 'episode' for a track.
NormalizeItemMutant(item) ==
    LET p == ParsePlayedAt(item.played_at) IN
    IF item.kind = "absent" THEN [res |-> "none"]
    ELSE IF item.played_at = NoTime THEN [res |-> "none"]
    ELSE IF ~p.ok THEN [res |-> "none"]
    ELSE IF item.kind = "episode"
         THEN [res |-> "ok", data |-> NormalizeEpisodeItem(p.dt)]
    ELSE IF item.kind = "episode_no_show" THEN [res |-> "raise"]
    ELSE [res |-> "ok", data |-> NormalizeTrackData(p.dt)]

\* normalize_item: "none" (returns None), "raise" (KeyError: episode_data['show']
\* is read unguarded), or "ok" with the drafts.
NormalizeItem(item) ==
    LET p == ParsePlayedAt(item.played_at) IN
    IF item.kind = "absent" THEN [res |-> "none"]
    ELSE IF item.played_at = NoTime THEN [res |-> "none"]
    ELSE IF ~p.ok THEN [res |-> "none"]
    ELSE IF item.kind = "track"
         THEN [res |-> "ok", data |-> NormalizeTrackData(p.dt)]
    ELSE IF item.kind = "episode"
         THEN [res |-> "ok", data |-> NormalizeEpisodeItem(p.dt)]
    ELSE IF item.kind = "episode_no_show" THEN [res |-> "raise"]
    ELSE [res |-> "none"]

\* --------------------------------------------------------------- storage
\* The session as the storage operations see it: the transaction's view of
\* the tables and whether the session's transaction is still usable.
Session(tx_, st_) == [tx |-> tx_, st |-> st_]

\* What a storage operation leaves behind: the session afterwards, "row"
\* (a row came back), "none" (None came back) or "raise" (DatabaseError),
\* and the returned row.
Result(tx_, st_, res_, row_) == [tx |-> tx_, st |-> st_, res |-> res_, row |-> row_]

NoRow == [id |-> NoId]

\* SQL comparison a > b: unknown (not true) when either side is NULL.
SqlGreater(a, b) == a # NoTime /\ b # NoTime /\ a > b

\* A query that answers with the smallest played_at.
MaxPlayedAtMutant(listens) ==
    IF listens = {} THEN NoTime
    ELSE CHOOSE t \in {l.played_at : l \in listens} :
             \A l \in listens : t <= l.played_at

\* get_max_played_at: select max(played_at) from listens; None on an empty table.
MaxPlayedAt(listens) ==
    IF listens = {} THEN NoTime ELSE Max({l.played_at : l \in listens})

\* database.py 110-119 (PostgreSQL dialect): genres_val if genres_val is not
\* None else [].
GenresToInsert(genres_val) ==
    IF genres_val = NoGenres THEN EmptyGenres ELSE genres_val

\* An upsert of the artist that leaves the stored row alone on conflict.
UpsertArtistMutant(s, artist_obj, how) ==
    IF s.st # "active" \/ how = "raise"
    THEN Result(s.tx, s.st, "raise", NoRow)
    ELSE IF how = "norow" THEN Result(s.tx, s.st, "none", NoRow)
    ELSE IF \E r \in s.tx.artists : r.artist_id = artist_obj.artist_id
    THEN Result(s.tx, s.st, "row",
                CHOOSE r \in s.tx.artists : r.artist_id = artist_obj.artist_id)
    ELSE LET row == [artist_obj EXCEPT !.genres = GenresToInsert(@)] IN
         Result([s.tx EXCEPT !.artists = @ \cup {row}], s.st, "row", row)

\* how \in {"ok", "norow", "raise"}: the statement worked, the statement
\* returned no row (fetchone() is None), the driver raised a SQLAlchemyError.
\* On an inactive session every session.execute raises.  ON CONFLICT
\* (artist_id) DO UPDATE sets every other column; RETURNING hands back the
\* stored row.
UpsertArtist(s, artist_obj, how) ==
    IF s.st # "active" \/ how = "raise"
    THEN Result(s.tx, s.st, "raise", NoRow)
    ELSE IF how = "norow" THEN Result(s.tx, s.st, "none", NoRow)
    ELSE LET row == [artist_obj EXCEPT !.genres = GenresToInsert(@)] IN
         Result([s.tx EXCEPT !.artists =
                    {r \in @ : r.artist_id # artist_obj.artist_id} \cup {row}],
                s.st, "row", row)

\* albums.primary_artist_id references artists.artist_id.
UpsertAlbum(s, album_obj, how) ==
    IF s.st # "active" \/ how = "raise"
    THEN Result(s.tx, s.st, "raise", NoRow)
    ELSE IF how = "norow" THEN Result(s.tx, s.st, "none", NoRow)
    ELSE IF ~\E a \in s.tx.artists : a.artist_id = album_obj.primary_artist_id
    THEN Result(s.tx, s.st, "raise", NoRow)
    ELSE Result([s.tx EXCEPT !.albums =
                    {r \in @ : r.album_id # album_obj.album_id} \cup {album_obj}],
                s.st, "row", album_obj)

\* A conflict clause that takes last_played_at from the draft like every
\* other column.
TrackConflictLastPlayedAtMutant(existing, excluded) == excluded

\* The row an INSERT .. ON CONFLICT (track_id) DO UPDATE leaves: every column
\* from the draft, except last_played_at = CASE WHEN excluded.last_played_at >
\* tracks.last_played_at THEN excluded.last_played_at ELSE tracks.last_played_at.
TrackConflictLastPlayedAt(existing, excluded) ==
    IF SqlGreater(excluded, existing) THEN excluded ELSE existing

TrackRowAfterUpsert(tracks, track_obj) ==
    IF \E r \in tracks : r.track_id = track_obj.track_id
    THEN LET old == CHOOSE r \in tracks : r.track_id = track_obj.track_id IN
         [track_obj EXCEPT !.last_played_at =
             TrackConflictLastPlayedAt(old.last_played_at, track_obj.last_played_at)]
    ELSE track_obj

\* tracks.album_id references albums.album_id.
UpsertTrack(s, track_obj, how) ==
    IF s.st # "active" \/ how = "raise"
    THEN Result(s.tx, s.st, "raise", NoRow)
    ELSE IF how = "norow" THEN Result(s.tx, s.st, "none", NoRow)
    ELSE IF ~\E a \in s.tx.albums : a.album_id = track_obj.album_id
    THEN Result(s.tx, s.st, "raise", NoRow)
    ELSE LET row == TrackRowAfterUpsert(s.tx.tracks, track_obj) IN
         Result([s.tx EXCEPT !.tracks =
                    {r \in @ : r.track_id # track_obj.track_id} \cup {row}],
                s.st, "row", row)

\* An upsert of the series that overwrites the stored row on conflict.
UpsertPodcastSeriesMutant(s, series_obj, how) ==
    IF s.st # "active" \/ how = "raise"
    THEN Result(s.tx, s.st, "raise", NoRow)
    ELSE Result([s.tx EXCEPT !.series =
                    {r \in @ : r.series_id # series_obj.series_id}
                        \cup {series_obj}],
                s.st, "row", series_obj)

\* ON CONFLICT (series_id) DO NOTHING; the input object is returned.
UpsertPodcastSeries(s, series_obj, how) ==
    IF s.st # "active" \/ how = "raise"
    THEN Result(s.tx, s.st, "raise", NoRow)
    ELSE Result([s.tx EXCEPT !.series =
                    IF \E r \in @ : r.series_id = series_obj.series_id
                    THEN @ ELSE @ \cup {series_obj}],
                s.st, "row", series_obj)

\* podcast_episodes.series_id references podcast_series.series_id (models.py
\* does not hold the two podcast tables; the reference is the one the entity
\* model names and the upsert's order of calls presumes).
EpisodeSeriesReference(tx_, episode_obj) ==
    \E r \in tx_.series : r.series_id = episode_obj.series_id

\* An upsert_podcast_episode that returns the input object without executing
\* the insert.
UpsertPodcastEpisodeMutant(s, episode_obj, how) ==
    IF s.st # "active" \/ how = "raise"
    THEN Result(s.tx, s.st, "raise", NoRow)
    ELSE Result(s.tx, s.st, "row", episode_obj)

\* ON CONFLICT (episode_id) DO NOTHING; the input object is returned.
UpsertPodcastEpisode(s, episode_obj, how) ==
    IF s.st # "active" \/ how = "raise"
    THEN Result(s.tx, s.st, "raise", NoRow)
    ELSE IF \E r \in s.tx.episodes : r.episode_id = episode_obj.episode_id
    THEN Result(s.tx, s.st, "row", episode_obj)
    ELSE IF ~EpisodeSeriesReference(s.tx, episode_obj)
    THEN Result(s.tx, s.st, "raise", NoRow)
    ELSE Result([s.tx EXCEPT !.episodes = @ \cup {episode_obj}],
                s.st, "row", episode_obj)

\* A listens table without ck_listen_item_type.
ListenCheckConstraintMutant(l) == TRUE

\* Listen.__table_args__: ck_listen_item_type.
ListenCheckConstraint(l) ==
    \/ l.item_type = "track" /\ l.track_id # NoId /\ l.episode_id = NoId
    \/ l.item_type = "episode" /\ l.episode_id # NoId /\ l.track_id = NoId

\* Listen's foreign keys: track_id, artist_id and album_id, each when not null.
ListenForeignKeys(tx_, l) ==
    /\ l.track_id # NoId => \E r \in tx_.tracks : r.track_id = l.track_id
    /\ l.artist_id # NoId => \E r \in tx_.artists : r.artist_id = l.artist_id
    /\ l.album_id # NoId => \E r \in tx_.albums : r.album_id = l.album_id

\* A listens table without the unique constraint on played_at.
ListenUniqueMutant(listens, l) == TRUE

\* played_at is unique.
ListenUnique(listens, l) == ~\E r \in listens : r.played_at = l.played_at

\* listen_id is autoincrement.
NextListenId(listens) ==
    IF listens = {} THEN 1 ELSE Max({l.listen_id : l \in listens}) + 1

\* insert_listen: session.add, session.flush.  An IntegrityError of the flush
\* is answered with None; any other SQLAlchemyError becomes DatabaseError.  A
\* flush that fails has rolled the session's transaction back to `committed`
\* and left the session inactive.  An inactive session's flush raises
\* PendingRollbackError, which is not an IntegrityError.
InsertListen(s, committed, listen_obj, how) ==
    IF s.st # "active" THEN Result(s.tx, s.st, "raise", NoRow)
    ELSE IF how = "raise" THEN Result(committed, "inactive", "raise", NoRow)
    ELSE IF ~(/\ ListenUnique(s.tx.listens, listen_obj)
              /\ ListenCheckConstraint(listen_obj)
              /\ ListenForeignKeys(s.tx, listen_obj))
    THEN Result(committed, "inactive", "none", NoRow)
    ELSE LET row == [listen_id |-> NextListenId(s.tx.listens),
                     played_at |-> listen_obj.played_at,
                     item_type |-> listen_obj.item_type,
                     track_id |-> listen_obj.track_id,
                     episode_id |-> listen_obj.episode_id,
                     artist_id |-> listen_obj.artist_id,
                     album_id |-> listen_obj.album_id] IN
         Result([s.tx EXCEPT !.listens = @ \cup {row}], s.st, "row", row)

\* ------------------------------------------------------------ orchestrator
VARIABLES
    db,                     \* the committed tables
    tx,                     \* the tables as the open session's transaction sees them
    db_session,             \* "None" before get_session returned, then "open", "closed"
    session_state,          \* "active", or "inactive" after a failed flush
    pc,                     \* the position of process_spotify_data
    exc,                    \* the exception on its way to the except clauses
    max_played_at_db,       \* the high-water mark read by this run
    response,               \* spotify_items_response
    idx,                    \* the loop's position in reversed(spotify_items)
    new_listens_count,
    processed_items_count,
    calls,                  \* the calls this run made, in order
    db_at_start,            \* the committed tables when this run started
    runs,                   \* runs that returned
    prev_committed,         \* the previous run committed
    served,                 \* the page the remote served to the previous run
    env_fault,              \* the environment made a call of this run fail
    escaped,                \* the exception that left process_spotify_data
    last_call               \* the storage call made directly (unit level)

vars == <<db, tx, db_session, session_state, pc, exc, max_played_at_db, response,
          idx, new_listens_count, processed_items_count, calls, db_at_start,
          runs, prev_committed, served, env_fault, escaped, last_call>>

\* A call of the run: the operation, the loop position of the item it was
\* made for (0 outside the loop) and how it ended.
Ev(op, i, res) == [op |-> op, pos |-> i, res |-> res]

\* A loop over spotify_items as fetched, newest first.
ReversedMutant(seq) == seq

\* reversed(spotify_items)
Reversed(seq) == [i \in 1..Len(seq) |-> seq[Len(seq) - i + 1]]

\* The raw items a page is made of.
Items ==
    {RawItem(k, t) : k \in {"track", "episode"}, t \in Times}
        \cup {RawItem("episode_no_show", t) : t \in Times}
        \cup {RawItem("unknown", MaxTime), RawItem("absent", MaxTime),
              RawItem("track", NoTime), RawItem("track", BadTime)}

\* The remote returns at most MaxPage items; it is not trusted to honour the
\* `after` bound or any order.
Pages == UNION {[1..n -> Items] : n \in 0..MaxPage}

NoResponse == [has_items |-> FALSE, items |-> <<>>]

\* What the storage or the driver does to one call of the item being processed.
NoFault == [op |-> "none", how |-> "ok"]
\* The storage's failures: a statement or a flush of the item's branch raises
\* a SQLAlchemyError.
ItemFaults(item) ==
    {NoFault}
        \cup {[op |-> o, how |-> "raise"] :
                o \in IF item.kind = "track"
                      THEN {"upsert_artist", "upsert_album", "upsert_track",
                            "insert_listen"}
                      ELSE IF item.kind = "episode"
                      THEN {"upsert_podcast_series", "upsert_podcast_episode",
                            "insert_listen"}
                      ELSE {}}

\* A simulated storage (a test double) can also answer an upsert of the track
\* branch with no row: fetchone() returns None and nothing is written.
SimulatedFaults(item) ==
    ItemFaults(item)
        \cup {[op |-> o, how |-> "norow"] :
                o \in IF item.kind = "track"
                      THEN {"upsert_artist", "upsert_album", "upsert_track"}
                      ELSE {}}

FaultsOf(storage, item) ==
    IF storage = "simulated" THEN SimulatedFaults(item) ELSE ItemFaults(item)

HowFor(f, op) == IF f.op = op THEN f.how ELSE "ok"

\* What processing one item leaves: the session, the exception raised (or
\* "none"), the calls made, and whether insert_listen returned a row.
Out(r, e, log, inserted) ==
    [tx |-> r.tx, st |-> r.st, exc |-> e, log |-> log, inserted |-> inserted]

\* main.py 124: `if not (db_artist_dict and db_album_dict and db_track_dict)`.
UpsertsIncomplete(ra, rb, rc) ==
    ra.res = "none" \/ rb.res = "none" \/ rc.res = "none"

\* An item whose upserts are incomplete ends the run with DatabaseError.
OnIncompleteUpsertsMutant == "DatabaseError"

\* main.py 125-128: log and `continue`; no exception is raised.
OnIncompleteUpserts == "none"

\* A track branch that tests each upsert's result at once and skips the item
\* at the first that is missing.
TrackBranchMutant(s, committed, d, i, f) ==
    LET ra == UpsertArtist(s, d.artist, HowFor(f, "upsert_artist"))
        ea == <<Ev("upsert_artist", i, ra.res)>>
    IN
    IF ra.res = "raise" THEN Out(ra, "DatabaseError", ea, 0) ELSE
    IF ra.res = "none" THEN Out(ra, OnIncompleteUpserts, ea, 0) ELSE
    LET rb == UpsertAlbum(ra, d.album, HowFor(f, "upsert_album"))
        eb == Append(ea, Ev("upsert_album", i, rb.res))
    IN
    IF rb.res = "raise" THEN Out(rb, "DatabaseError", eb, 0) ELSE
    IF rb.res = "none" THEN Out(rb, OnIncompleteUpserts, eb, 0) ELSE
    LET rc == UpsertTrack(rb, d.track, HowFor(f, "upsert_track"))
        ec == Append(eb, Ev("upsert_track", i, rc.res))
    IN
    IF rc.res = "raise" THEN Out(rc, "DatabaseError", ec, 0) ELSE
    IF rc.res = "none" THEN Out(rc, OnIncompleteUpserts, ec, 0) ELSE
    LET listen_model_obj ==
            [d.listen EXCEPT !.artist_id = ra.row.artist_id,
                             !.album_id = rb.row.album_id,
                             !.track_id = rc.row.track_id]
        rl == InsertListen(rc, committed, listen_model_obj, HowFor(f, "insert_listen"))
        el == Append(ec, Ev("insert_listen", i, rl.res))
    IN
    Out(rl, IF rl.res = "raise" THEN "DatabaseError" ELSE "none", el,
        IF rl.res = "row" THEN 1 ELSE 0)

\* main.py 115-141: the three upserts are all executed, then tested together.
TrackBranch(s, committed, d, i, f) ==
    LET ra == UpsertArtist(s, d.artist, HowFor(f, "upsert_artist"))
        ea == <<Ev("upsert_artist", i, ra.res)>>
    IN
    IF ra.res = "raise" THEN Out(ra, "DatabaseError", ea, 0) ELSE
    LET rb == UpsertAlbum(ra, d.album, HowFor(f, "upsert_album"))
        eb == Append(ea, Ev("upsert_album", i, rb.res))
    IN
    IF rb.res = "raise" THEN Out(rb, "DatabaseError", eb, 0) ELSE
    LET rc == UpsertTrack(rb, d.track, HowFor(f, "upsert_track"))
        ec == Append(eb, Ev("upsert_track", i, rc.res))
    IN
    IF rc.res = "raise" THEN Out(rc, "DatabaseError", ec, 0) ELSE
    IF UpsertsIncomplete(ra, rb, rc)
    THEN Out(rc, OnIncompleteUpserts, ec, 0) ELSE
    LET listen_model_obj ==
            [d.listen EXCEPT !.artist_id = ra.row.artist_id,
                             !.album_id = rb.row.album_id,
                             !.track_id = rc.row.track_id]
        rl == InsertListen(rc, committed, listen_model_obj, HowFor(f, "insert_listen"))
        el == Append(ec, Ev("insert_listen", i, rl.res))
    IN
    Out(rl, IF rl.res = "raise" THEN "DatabaseError" ELSE "none", el,
        IF rl.res = "row" THEN 1 ELSE 0)

\* An episode branch that upserts the episode before its series.
EpisodeBranchMutant(s, committed, d, i, f) ==
    LET ra == UpsertPodcastEpisode(s, d.episode, HowFor(f, "upsert_podcast_episode"))
        ea == <<Ev("upsert_podcast_episode", i, ra.res)>>
    IN
    IF ra.res = "raise" THEN Out(ra, "DatabaseError", ea, 0) ELSE
    LET rb == UpsertPodcastSeries(ra, d.series, HowFor(f, "upsert_podcast_series"))
        eb == Append(ea, Ev("upsert_podcast_series", i, rb.res))
    IN
    IF rb.res = "raise" THEN Out(rb, "DatabaseError", eb, 0) ELSE
    LET rl == InsertListen(rb, committed, d.listen, HowFor(f, "insert_listen"))
        el == Append(eb, Ev("insert_listen", i, rl.res))
    IN
    Out(rl, IF rl.res = "raise" THEN "DatabaseError" ELSE "none", el,
        IF rl.res = "row" THEN 1 ELSE 0)

\* main.py 143-157.
EpisodeBranch(s, committed, d, i, f) ==
    LET ra == UpsertPodcastSeries(s, d.series, HowFor(f, "upsert_podcast_series"))
        ea == <<Ev("upsert_podcast_series", i, ra.res)>>
    IN
    IF ra.res = "raise" THEN Out(ra, "DatabaseError", ea, 0) ELSE
    LET rb == UpsertPodcastEpisode(ra, d.episode, HowFor(f, "upsert_podcast_episode"))
        eb == Append(ea, Ev("upsert_podcast_episode", i, rb.res))
    IN
    IF rb.res = "raise" THEN Out(rb, "DatabaseError", eb, 0) ELSE
    LET rl == InsertListen(rb, committed, d.listen, HowFor(f, "insert_listen"))
        el == Append(eb, Ev("insert_listen", i, rl.res))
    IN
    Out(rl, IF rl.res = "raise" THEN "DatabaseError" ELSE "none", el,
        IF rl.res = "row" THEN 1 ELSE 0)

\* A high-water test written with < : an item played at the mark is processed.
SkippedBeforeNormalizationMutant(item, max_db) ==
    \/ item.kind = "absent"
    \/ item.played_at = NoTime
    \/ ~ParsePlayedAt(item.played_at).ok
    \/ max_db # NoTime /\ ParsePlayedAt(item.played_at).dt < max_db

\* A loop without the high-water test: only unusable items are skipped.
SkippedBeforeNormalizationNoMarkMutant(item, max_db) ==
    \/ item.kind = "absent"
    \/ item.played_at = NoTime
    \/ ~ParsePlayedAt(item.played_at).ok

\* main.py 80-100: the three tests that skip an item before it is counted.
SkippedBeforeNormalization(item, max_db) ==
    \/ item.kind = "absent"
    \/ item.played_at = NoTime
    \/ ~ParsePlayedAt(item.played_at).ok
    \/ max_db # NoTime /\ ParsePlayedAt(item.played_at).dt <= max_db

\* main.py 105-160: normalize the item and write it.
NormalizeAndWrite(s, committed, item, i, f) ==
    LET n == NormalizeItem(item)
        en == <<Ev("normalize_item", i, n.res)>>
    IN
    IF n.res = "raise" THEN Out(s, "Exception", en, 0)
    ELSE IF n.res = "none" THEN Out(s, "none", en, 0)
    ELSE LET o == IF n.data.type = "track"
                  THEN TrackBranch(s, committed, n.data, i, f)
                  ELSE EpisodeBranch(s, committed, n.data, i, f)
         IN [o EXCEPT !.log = en \o @]

NoCall == [op |-> "none"]

Init ==
    /\ db = EmptyDb
    /\ tx = EmptyDb
    /\ db_session = "None"
    /\ session_state = "active"
    /\ pc = "get_spotify_credentials"
    /\ exc = "none"
    /\ max_played_at_db = NoTime
    /\ response = NoResponse
    /\ idx = 0
    /\ new_listens_count = 0
    /\ processed_items_count = 0
    /\ calls = <<>>
    /\ db_at_start = EmptyDb
    /\ runs = 0
    /\ prev_committed = FALSE
    /\ served = <<>>
    /\ env_fault = FALSE
    /\ escaped = "none"
    /\ last_call = NoCall

\* Raising e leaves the try block for the except clauses.
Raise(e) == /\ exc' = e
            /\ pc' = "except"

Outcome(ok) == IF ok THEN "row" ELSE "raise"

\* main.py 33: get_spotify_credentials returns or raises ConfigurationError.
GetSpotifyCredentials ==
    /\ pc = "get_spotify_credentials"
    /\ \E ok \in BOOLEAN :
         /\ calls' = Append(calls, Ev("get_spotify_credentials", 0, Outcome(ok)))
         /\ env_fault' = (env_fault \/ ~ok)
         /\ IF ok THEN pc' = "get_session" /\ exc' = exc
                  ELSE Raise("ConfigurationError")
    /\ UNCHANGED <<db, tx, db_session, session_state, max_played_at_db, response,
                   idx, new_listens_count, processed_items_count,
                   db_at_start, runs, prev_committed, served, escaped, last_call>>

\* main.py 36-38: get_db_engine and get_session; either raises DatabaseError,
\* and then db_session is still None.
GetSession ==
    /\ pc = "get_session"
    /\ \E ok \in BOOLEAN :
         /\ calls' = Append(calls, Ev("get_session", 0, Outcome(ok)))
         /\ env_fault' = (env_fault \/ ~ok)
         /\ IF ok
            THEN /\ db_session' = "open"
                 /\ session_state' = "active"
                 /\ tx' = db
                 /\ pc' = "get_access_token"
                 /\ exc' = exc
            ELSE /\ Raise("DatabaseError")
                 /\ UNCHANGED <<db_session, session_state, tx>>
    /\ UNCHANGED <<db, max_played_at_db, response, idx, new_listens_count,
                   processed_items_count, db_at_start, runs, prev_committed,
                   served, escaped, last_call>>

\* main.py 41-51: the token refresh returns a token, returns nothing (main
\* raises SpotifyAuthError), or raises SpotifyAuthError, SpotifyAPIError or,
\* when the retries are used up, tenacity's RetryError.
TokenOutcomes == {"token", "no_token", "SpotifyAuthError", "SpotifyAPIError", "Exception"}

GetAccessToken ==
    /\ pc = "get_access_token"
    /\ \E o \in TokenOutcomes :
         /\ calls' = Append(calls, Ev("get_access_token_from_refresh", 0,
                                      IF o = "token" THEN "row"
                                      ELSE IF o = "no_token" THEN "none" ELSE "raise"))
         /\ env_fault' = (env_fault \/ o # "token")
         /\ IF o = "token" THEN pc' = "get_max_played_at" /\ exc' = exc
            ELSE IF o = "no_token" THEN Raise("SpotifyAuthError")
            ELSE Raise(o)
    /\ UNCHANGED <<db, tx, db_session, session_state, max_played_at_db, response,
                   idx, new_listens_count, processed_items_count,
                   db_at_start, runs, prev_committed, served, escaped, last_call>>

\* main.py 57: the high-water mark, or DatabaseError.
GetMaxPlayedAt ==
    /\ pc = "get_max_played_at"
    /\ \E ok \in BOOLEAN :
         /\ calls' = Append(calls, Ev("get_max_played_at", 0, Outcome(ok)))
         /\ env_fault' = (env_fault \/ ~ok)
         /\ IF ok
            THEN /\ max_played_at_db' = MaxPlayedAt(tx.listens)
                 /\ pc' = "get_recently_played_tracks"
                 /\ exc' = exc
            ELSE /\ Raise("DatabaseError")
                 /\ UNCHANGED max_played_at_db
    /\ UNCHANGED <<db, tx, db_session, session_state, response, idx,
                   new_listens_count, processed_items_count, db_at_start, runs,
                   prev_committed, served, escaped, last_call>>

\* main.py 65: limit=50.
FetchLimit == 50

\* main.py 60: after_param = None.
NoAfter == -1

\* A conversion that passes seconds where milliseconds are expected.
ToEpochMillisMutant(t) == t

\* main.py 62: int(max_played_at_db.timestamp() * 1000); the instants of the
\* model are whole seconds since the epoch.
ToEpochMillis(t) == t * 1000

\* main.py 60-62.
AfterParam(max_db) == IF max_db = NoTime THEN NoAfter ELSE ToEpochMillis(max_db)

\* main.py 65: get_recently_played_tracks(access_token, limit=50,
\* after=after_param); last_call keeps the arguments.
CallGetRecentlyPlayedTracks ==
    last_call' = [op |-> "get_recently_played_tracks", limit |-> FetchLimit,
                  after |-> AfterParam(max_played_at_db)]

\* main.py 65-77: the fetch answers with a page, answers without 'items', or
\* raises SpotifyAPIError or (retries used up) RetryError.
FetchPage(page) ==
    /\ response' = [has_items |-> TRUE, items |-> page]
    /\ idx' = 1
    /\ calls' = Append(calls, Ev("get_recently_played_tracks", 0, "row"))
    /\ pc' = IF Len(page) = 0 THEN "commit" ELSE "loop"
    /\ UNCHANGED <<exc, env_fault>>

FetchNoItems ==
    /\ response' = NoResponse
    /\ calls' = Append(calls, Ev("get_recently_played_tracks", 0, "none"))
    /\ pc' = "finally"
    /\ UNCHANGED <<exc, idx, env_fault>>

FetchRaises(e) ==
    /\ calls' = Append(calls, Ev("get_recently_played_tracks", 0, "raise"))
    /\ env_fault' = TRUE
    /\ Raise(e)
    /\ UNCHANGED <<response, idx>>

FetchFails ==
    \/ FetchNoItems
    \/ \E e \in {"SpotifyAPIError", "Exception"} : FetchRaises(e)

GetRecentlyPlayedTracks ==
    /\ pc = "get_recently_played_tracks"
    /\ \/ \E page \in Pages : FetchPage(page)
       \/ FetchFails
    /\ CallGetRecentlyPlayedTracks
    /\ UNCHANGED <<db, tx, db_session, session_state, max_played_at_db,
                   new_listens_count, processed_items_count, db_at_start, runs,
                   prev_committed, served, escaped>>

\* A loop body that swallows the exception of an item and goes on.
AbortsLoopMutant(e) == FALSE

\* main.py 79-160: the loop body holds no try: an exception raised for an item
\* leaves the loop.
AbortsLoop(e) == e # "none"

\* main.py 79-160: one iteration of `for item in reversed(spotify_items)`,
\* against the real storage or a simulated one.
ProcessItemWith(storage) ==
    /\ pc = "loop"
    /\ LET item == Reversed(response.items)[idx] IN
       IF SkippedBeforeNormalization(item, max_played_at_db)
       THEN /\ idx' = idx + 1
            /\ pc' = IF idx = Len(response.items) THEN "commit" ELSE "loop"
            /\ UNCHANGED <<tx, session_state, exc, calls, new_listens_count,
                           processed_items_count, env_fault>>
       ELSE \E f \in FaultsOf(storage, item) :
              LET o == NormalizeAndWrite(Session(tx, session_state), db, item,
                                         idx, f) IN
              /\ tx' = o.tx
              /\ session_state' = o.st
              /\ calls' = calls \o o.log
              /\ env_fault' = (env_fault \/ f # NoFault)
              /\ processed_items_count' = processed_items_count + 1
              /\ new_listens_count' = new_listens_count + o.inserted
              /\ IF AbortsLoop(o.exc)
                 THEN Raise(o.exc) /\ idx' = idx
                 ELSE /\ idx' = idx + 1
                      /\ pc' = IF idx = Len(response.items) THEN "commit" ELSE "loop"
                      /\ exc' = exc
    /\ UNCHANGED <<db, db_session, max_played_at_db, response,
                   db_at_start, runs, prev_committed, served, escaped, last_call>>

\* A commit guard that lets a run without new Listens commit.
CommitGuardMutant(count) == count >= 0

ProcessItem == ProcessItemWith("real")

\* main.py 162: the test that guards commit.
CommitGuard(count) == count > 0

\* A commit that returns without persisting.
SessionCommitMutant(committed, tx_) == committed

\* A commit that leaves the listens table holding only the rows this session
\* added.
SessionCommitReplacingMutant(committed, tx_) ==
    [tx_ EXCEPT !.listens = @ \ committed.listens]

\* db_session.commit(): the transaction's view becomes the committed tables.
SessionCommit(committed, tx_) == tx_

\* A try block whose statement after a commit that returned raises.
CommitMutant ==
    /\ pc = "commit"
    /\ IF CommitGuard(new_listens_count)
       THEN \E ok \in IF session_state = "active" THEN BOOLEAN ELSE {TRUE} :
              IF ok /\ session_state = "active"
              THEN /\ db' = SessionCommit(db, tx)
                   /\ calls' = Append(calls, Ev("commit", 0, "row"))
                   /\ Raise("Exception")
                   /\ UNCHANGED <<tx, session_state, env_fault>>
              ELSE /\ calls' = Append(calls, Ev("commit", 0, "raise"))
                   /\ tx' = db
                   /\ session_state' = "inactive"
                   /\ env_fault' = (env_fault \/ ~ok)
                   /\ Raise("Exception")
                   /\ UNCHANGED db
       ELSE /\ pc' = "finally"
            /\ UNCHANGED <<db, tx, session_state, exc, calls, env_fault>>
    /\ UNCHANGED <<db_session, max_played_at_db, response, idx,
                   new_listens_count, processed_items_count, db_at_start, runs,
                   prev_committed, served, escaped, last_call>>

\* main.py 162-170: commit once if a Listen was inserted.  commit raises on
\* an inactive session (PendingRollbackError), and may raise for the
\* storage's own reasons; a commit that raised has rolled back.
Commit ==
    /\ pc = "commit"
    /\ IF CommitGuard(new_listens_count)
       THEN \E ok \in IF session_state = "active" THEN BOOLEAN ELSE {TRUE} :
              IF ok /\ session_state = "active"
              THEN /\ db' = SessionCommit(db, tx)
                   /\ calls' = Append(calls, Ev("commit", 0, "row"))
                   /\ pc' = "finally"
                   /\ UNCHANGED <<tx, session_state, exc, env_fault>>
              ELSE /\ calls' = Append(calls, Ev("commit", 0, "raise"))
                   /\ tx' = db
                   /\ session_state' = "inactive"
                   /\ env_fault' = (env_fault \/ ~ok)
                   /\ Raise("Exception")
                   /\ UNCHANGED db
       ELSE /\ pc' = "finally"
            /\ UNCHANGED <<db, tx, session_state, exc, calls, env_fault>>
    /\ UNCHANGED <<db_session, max_played_at_db, response, idx,
                   new_listens_count, processed_items_count, db_at_start, runs,
                   prev_committed, served, escaped, last_call>>

\* Except clauses without the catch-all `except Exception`.
CaughtByExceptMutant(e) ==
    e \in {"ConfigurationError", "DatabaseError", "SpotifyAuthError",
           "SpotifyAPIError"}

\* main.py 172, 180, 188, 196, 204: the classes the except clauses name; every
\* exception of the model is an Exception.
CaughtByExcept(e) ==
    e \in {"ConfigurationError", "DatabaseError", "SpotifyAuthError",
           "SpotifyAPIError", "Exception"}

\* main.py 178, 186, 194, 202, 210 and 217: `except Exception` around
\* rollback and around close.
CaughtByNestedExcept(e) ==
    e \in {"ConfigurationError", "DatabaseError", "SpotifyAuthError",
           "SpotifyAPIError", "Exception"}

\* An except SpotifyAPIError clause that forgets the rollback.
RollbackConditionMutant(e, session) ==
    e # "SpotifyAPIError" /\ e \in {"ConfigurationError", "DatabaseError",
                                     "SpotifyAuthError", "Exception"}
                          /\ session = "open"

\* A finally clause that forgets the close.
CloseConditionMutant(session) == FALSE

\* main.py 174, 182, 190, 198, 206: `if db_session:` in the clause that
\* caught e.
RollbackCondition(e, session) == CaughtByExcept(e) /\ session = "open"

\* main.py 213: `if db_session:`.
CloseCondition(session) == session = "open"

\* What rollback or close raises when it fails.
CleanupError == "Exception"

\* main.py 172-211: every except clause does the same: if a session exists,
\* rollback, and an exception of rollback is logged and dropped.  An
\* exception no clause names goes on to the finally clause.
Except ==
    /\ pc = "except"
    /\ IF RollbackCondition(exc, db_session)
       THEN \E ok \in BOOLEAN :
              /\ calls' = Append(calls, Ev("rollback", 0, Outcome(ok)))
              /\ tx' = db
              /\ session_state' = IF ok THEN "active" ELSE session_state
              /\ env_fault' = (env_fault \/ ~ok)
              /\ escaped' = IF ~CaughtByExcept(exc) THEN exc
                            ELSE IF ~ok /\ ~CaughtByNestedExcept(CleanupError)
                            THEN CleanupError ELSE escaped
       ELSE /\ UNCHANGED <<calls, tx, session_state, env_fault>>
            /\ escaped' = IF CaughtByExcept(exc) THEN escaped ELSE exc
    /\ pc' = "finally"
    /\ UNCHANGED <<db, db_session, exc, max_played_at_db, response, idx,
                   new_listens_count, processed_items_count, db_at_start, runs,
                   prev_committed, served, last_call>>

\* main.py 212-218: close the session if there is one; an exception of close
\* is logged and dropped.  The function returns.
Finally ==
    /\ pc = "finally"
    /\ IF CloseCondition(db_session)
       THEN \E ok \in BOOLEAN :
              /\ calls' = Append(calls, Ev("close", 0, Outcome(ok)))
              /\ db_session' = "closed"
              /\ tx' = db
              /\ session_state' = "active"
              /\ env_fault' = (env_fault \/ ~ok)
              /\ escaped' = IF ~ok /\ ~CaughtByNestedExcept(CleanupError)
                            THEN CleanupError ELSE escaped
       ELSE UNCHANGED <<calls, db_session, tx, session_state, env_fault, escaped>>
    /\ pc' = "returned"
    /\ runs' = runs + 1
    /\ UNCHANGED <<db, exc, max_played_at_db, response, idx,
                   new_listens_count, processed_items_count, db_at_start,
                   prev_committed, served, last_call>>

\* This run's commit returned.
Committed == \E k \in 1..Len(calls) : calls[k].op = "commit" /\ calls[k].res = "row"

\* The job is started again (main.py 26-29, 220-228: one run per process).
StartRun ==
    /\ pc = "returned"
    /\ runs < MaxRuns
    /\ pc' = "get_spotify_credentials"
    /\ db_session' = "None"
    /\ session_state' = "active"
    /\ tx' = db
    /\ exc' = "none"
    /\ max_played_at_db' = NoTime
    /\ response' = NoResponse
    /\ idx' = 0
    /\ new_listens_count' = 0
    /\ processed_items_count' = 0
    /\ calls' = <<>>
    /\ db_at_start' = db
    /\ prev_committed' = Committed
    /\ env_fault' = FALSE
    /\ escaped' = "none"
    /\ last_call' = NoCall
    /\ UNCHANGED <<db, runs, served>>

Next ==
    \/ GetSpotifyCredentials
    \/ GetSession
    \/ GetAccessToken
    \/ GetMaxPlayedAt
    \/ GetRecentlyPlayedTracks
    \/ ProcessItem
    \/ Commit
    \/ Except
    \/ Finally
    \/ StartRun

Spec == Init /\ [][Next]_vars

\* ------------------------------------------------- the same page, twice
\* The store a run finds may hold Listens of earlier runs: the store that a
\* run over the one-item page [track at t] commits to an empty store.
SeedDb(t) ==
    TrackBranch(Session(EmptyDb, "active"), EmptyDb, NormalizeTrackData(t), 1,
                NoFault).tx

InitRepeat ==
    /\ db \in {EmptyDb} \cup {SeedDb(t) : t \in Times}
    /\ tx = db
    /\ db_session = "None"
    /\ session_state = "active"
    /\ pc = "get_spotify_credentials"
    /\ exc = "none"
    /\ max_played_at_db = NoTime
    /\ response = NoResponse
    /\ idx = 0
    /\ new_listens_count = 0
    /\ processed_items_count = 0
    /\ calls = <<>>
    /\ db_at_start = db
    /\ runs = 0
    /\ prev_committed = FALSE
    /\ served = <<>>
    /\ env_fault = FALSE
    /\ escaped = "none"
    /\ last_call = NoCall

\* The first run is served any page; the remote remembers it.
FetchFirst ==
    /\ pc = "get_recently_played_tracks"
    /\ runs = 0
    /\ \/ \E page \in Pages : FetchPage(page) /\ served' = page
       \/ FetchFails /\ served' = <<>>
    /\ CallGetRecentlyPlayedTracks
    /\ UNCHANGED <<db, tx, db_session, session_state, max_played_at_db,
                   new_listens_count, processed_items_count, db_at_start, runs,
                   prev_committed, escaped>>

\* Every later run is served the same page again.
FetchSame ==
    /\ pc = "get_recently_played_tracks"
    /\ runs > 0
    /\ FetchPage(served)
    /\ CallGetRecentlyPlayedTracks
    /\ UNCHANGED <<db, tx, db_session, session_state, max_played_at_db,
                   new_listens_count, processed_items_count, db_at_start, runs,
                   prev_committed, served, escaped>>

NextRepeat ==
    \/ GetSpotifyCredentials
    \/ GetSession
    \/ GetAccessToken
    \/ GetMaxPlayedAt
    \/ FetchFirst
    \/ FetchSame
    \/ ProcessItem
    \/ Commit
    \/ Except
    \/ Finally
    \/ StartRun

SpecRepeat == InitRepeat /\ [][NextRepeat]_vars

\* ------------------------------------------------ upsert_track, directly
\* The drafts a caller hands to upsert_track: the track's name and markets
\* change at the remote, last_played_at is an instant or None.
TrackNames == {TrackName, "Track A (Live)"}
MarketSets == {Markets, "US,DE"}

TrackDrafts ==
    {[track_id |-> TrackId, name |-> n, available_markets |-> m,
      album_id |-> AlbumId, last_played_at |-> t] :
        n \in TrackNames, m \in MarketSets, t \in {NoTime} \cup Times}

\* A store that holds the artist and the album the drafts refer to.
CatalogDb ==
    LET d == NormalizeTrackData(MaxTime)
        s == Session(EmptyDb, "active")
    IN UpsertAlbum(UpsertArtist(s, d.artist, "ok"), d.album, "ok").tx

InitUpsert ==
    /\ db = CatalogDb
    /\ tx = CatalogDb
    /\ db_session = "open"
    /\ session_state = "active"
    /\ pc = "unit"
    /\ exc = "none"
    /\ max_played_at_db = NoTime
    /\ response = NoResponse
    /\ idx = 0
    /\ new_listens_count = 0
    /\ processed_items_count = 0
    /\ calls = <<>>
    /\ db_at_start = CatalogDb
    /\ runs = 0
    /\ prev_committed = FALSE
    /\ served = <<>>
    /\ env_fault = FALSE
    /\ escaped = "none"
    /\ last_call = NoCall

\* One call of upsert_track(session, track_obj); last_call keeps the rows of
\* the track before the call, the draft and what came back.
UpsertTrackCall ==
    /\ pc = "unit"
    /\ \E d \in TrackDrafts, how \in {"ok", "raise"} :
         LET r == UpsertTrack(Session(tx, session_state), d, how) IN
         /\ tx' = r.tx
         /\ last_call' = [op |-> "upsert_track",
                          before |-> {t \in tx.tracks : t.track_id = d.track_id},
                          draft |-> d, res |-> r.res, row |-> r.row]
    /\ UNCHANGED <<db, db_session, session_state, pc, exc, max_played_at_db,
                   response, idx, new_listens_count, processed_items_count,
                   calls, db_at_start, runs, prev_committed, served, env_fault,
                   escaped>>

NextUpsert == UpsertTrackCall

SpecUpsert == InitUpsert /\ [][NextUpsert]_vars

\* ------------------------------------------- one run, simulated storage
ProcessItemSimulated == ProcessItemWith("simulated")

NextSimulated ==
    \/ GetSpotifyCredentials
    \/ GetSession
    \/ GetAccessToken
    \/ GetMaxPlayedAt
    \/ GetRecentlyPlayedTracks
    \/ ProcessItemSimulated
    \/ Commit
    \/ Except
    \/ Finally

SpecSimulated == Init /\ [][NextSimulated]_vars

\* ------------------------------------------------ insert_listen, directly
\* The Listen objects a caller can hand to the session: any discriminator
\* with any pattern of references.
ListenTimes == 1..MaxListens

ListenDrafts ==
    [played_at : ListenTimes, item_type : {"track", "episode", "other"},
     track_id : {TrackId, NoId}, episode_id : {EpisodeId, NoId},
     artist_id : {ArtistId, NoId}, album_id : {AlbumId, NoId}]

\* A store that holds the artist, the album and the track the drafts refer to.
ListenStore ==
    UpsertTrack(Session(CatalogDb, "active"), NormalizeTrackData(MaxTime).track,
                "ok").tx

InitListen ==
    /\ db = ListenStore
    /\ tx = ListenStore
    /\ db_session = "open"
    /\ session_state = "active"
    /\ pc = "unit"
    /\ exc = "none"
    /\ max_played_at_db = NoTime
    /\ response = NoResponse
    /\ idx = 0
    /\ new_listens_count = 0
    /\ processed_items_count = 0
    /\ calls = <<>>
    /\ db_at_start = ListenStore
    /\ runs = 0
    /\ prev_committed = FALSE
    /\ served = <<>>
    /\ env_fault = FALSE
    /\ escaped = "none"
    /\ last_call = NoCall

\* session.add(listen) and flush, then commit when the flush worked and
\* rollback when it raised IntegrityError.
InsertListenCall ==
    /\ pc = "unit"
    /\ \E l \in ListenDrafts :
         LET r == InsertListen(Session(tx, session_state), db, l, "ok") IN
         /\ last_call' = [op |-> "insert_listen", draft |-> l, res |-> r.res]
         /\ IF r.res = "row"
            THEN db' = SessionCommit(db, r.tx) /\ tx' = r.tx
            ELSE db' = db /\ tx' = db
    /\ UNCHANGED <<db_session, session_state, pc, exc, max_played_at_db,
                   response, idx, new_listens_count, processed_items_count,
                   calls, db_at_start, runs, prev_committed, served, env_fault,
                   escaped>>

NextListen == InsertListenCall

SpecListen == InitListen /\ [][NextListen]_vars

\* --------------------------------------------- get_max_played_at, directly
\* database.py 98-102: what get_max_played_at returns.  driver_tzinfo is the
\* tzinfo of the datetime the driver hands back for the timestamp column:
\* "None" for a naive value, "utc" for an aware one.  The stored values are
\* UTC, so replace(tzinfo=utc) on a naive value keeps the instant.
NoneValue == [at |-> NoTime, tzinfo |-> "None"]

DriverTzinfos == {"None", "utc"}

GetMaxPlayedAtValue(listens, driver_tzinfo) ==
    LET max_ts == MaxPlayedAt(listens) IN
    IF max_ts = NoTime THEN NoneValue
    ELSE [at |-> max_ts,
          tzinfo |-> IF driver_tzinfo = "None" THEN "utc" ELSE driver_tzinfo]

\* session.add(listen) and flush without commit: the row is pending in the
\* session; a flush that raised IntegrityError is rolled back by the caller.
AddListen ==
    /\ pc = "unit"
    /\ \E l \in ListenDrafts :
         LET r == InsertListen(Session(tx, session_state), db, l, "ok") IN
         /\ last_call' = [op |-> "insert_listen", draft |-> l, res |-> r.res]
         /\ tx' = IF r.res = "row" THEN r.tx ELSE db
    /\ UNCHANGED <<db, db_session, session_state, pc, exc, max_played_at_db,
                   response, idx, new_listens_count, processed_items_count,
                   calls, db_at_start, runs, prev_committed, served, env_fault,
                   escaped>>

\* session.commit()
SessionCommitCall ==
    /\ pc = "unit"
    /\ tx # db
    /\ db' = SessionCommit(db, tx)
    /\ last_call' = [op |-> "commit"]
    /\ UNCHANGED <<tx, db_session, session_state, pc, exc, max_played_at_db,
                   response, idx, new_listens_count, processed_items_count,
                   calls, db_at_start, runs, prev_committed, served, env_fault,
                   escaped>>

\* session.rollback()
SessionRollbackCall ==
    /\ pc = "unit"
    /\ tx # db
    /\ tx' = db
    /\ last_call' = [op |-> "rollback"]
    /\ UNCHANGED <<db, db_session, session_state, pc, exc, max_played_at_db,
                   response, idx, new_listens_count, processed_items_count,
                   calls, db_at_start, runs, prev_committed, served, env_fault,
                   escaped>>

\* get_max_played_at(session); last_call keeps the rows the session saw.
GetMaxPlayedAtCall ==
    /\ pc = "unit"
    /\ \E driver_tzinfo \in DriverTzinfos :
         last_call' = [op |-> "get_max_played_at", visible |-> tx.listens,
                       driver_tzinfo |-> driver_tzinfo,
                       res |-> GetMaxPlayedAtValue(tx.listens, driver_tzinfo)]
    /\ UNCHANGED <<db, tx, db_session, session_state, pc, exc,
                   max_played_at_db, response, idx, new_listens_count,
                   processed_items_count, calls, db_at_start, runs,
                   prev_committed, served, env_fault, escaped>>

NextMaxPlayedAt ==
    AddListen \/ SessionCommitCall \/ SessionRollbackCall \/ GetMaxPlayedAtCall

SpecMaxPlayedAt == InitListen /\ [][NextMaxPlayedAt]_vars

\* ------------------------------------------- the podcast upserts, directly
\* The drafts a caller hands to the podcast upserts: two shows and two
\* episodes, whose names change at the remote.
SeriesIds == {SeriesId, "show_b"}
SeriesNames == {SeriesName, "Show A (renamed)"}
EpisodeIds == {EpisodeId, "episode_b"}
EpisodeNames == {EpisodeName, "Episode A (renamed)"}

SeriesDrafts == [series_id : SeriesIds, name : SeriesNames]

EpisodeDrafts == [episode_id : EpisodeIds, name : EpisodeNames, series_id : SeriesIds]

InitPodcast ==
    /\ db = EmptyDb
    /\ tx = EmptyDb
    /\ db_session = "open"
    /\ session_state = "active"
    /\ pc = "unit"
    /\ exc = "none"
    /\ max_played_at_db = NoTime
    /\ response = NoResponse
    /\ idx = 0
    /\ new_listens_count = 0
    /\ processed_items_count = 0
    /\ calls = <<>>
    /\ db_at_start = EmptyDb
    /\ runs = 0
    /\ prev_committed = FALSE
    /\ served = <<>>
    /\ env_fault = FALSE
    /\ escaped = "none"
    /\ last_call = NoCall

\* One call of upsert_podcast_series(session, series_obj); last_call keeps
\* the stored rows of that id before and after the call.
UpsertPodcastSeriesCall ==
    /\ pc = "unit"
    /\ \E d \in SeriesDrafts, how \in {"ok", "raise"} :
         LET r == UpsertPodcastSeries(Session(tx, session_state), d, how) IN
         /\ tx' = r.tx
         /\ last_call' = [op |-> "upsert_podcast_series",
                          before |-> {x \in tx.series : x.series_id = d.series_id},
                          after |-> {x \in r.tx.series : x.series_id = d.series_id},
                          draft |-> d, res |-> r.res, row |-> r.row]
    /\ UNCHANGED <<db, db_session, session_state, pc, exc, max_played_at_db,
                   response, idx, new_listens_count, processed_items_count,
                   calls, db_at_start, runs, prev_committed, served, env_fault,
                   escaped>>

\* One call of upsert_podcast_episode(session, episode_obj).
UpsertPodcastEpisodeCall ==
    /\ pc = "unit"
    /\ \E d \in EpisodeDrafts, how \in {"ok", "raise"} :
         LET r == UpsertPodcastEpisode(Session(tx, session_state), d, how) IN
         /\ tx' = r.tx
         /\ last_call' = [op |-> "upsert_podcast_episode",
                          before |-> {x \in tx.episodes : x.episode_id = d.episode_id},
                          after |-> {x \in r.tx.episodes : x.episode_id = d.episode_id},
                          draft |-> d, res |-> r.res, row |-> r.row]
    /\ UNCHANGED <<db, db_session, session_state, pc, exc, max_played_at_db,
                   response, idx, new_listens_count, processed_items_count,
                   calls, db_at_start, runs, prev_committed, served, env_fault,
                   escaped>>

NextPodcast == UpsertPodcastSeriesCall \/ UpsertPodcastEpisodeCall

SpecPodcast == InitPodcast /\ [][NextPodcast]_vars

\* --------------------------------- upsert_artist and upsert_album, directly
\* The drafts a caller hands to upsert_artist and upsert_album: two artists
\* whose name and genres change at the remote, one album whose name and
\* primary artist change.
ArtistIds == {ArtistId, "artistB"}
ArtistNames == {ArtistName, "Artist A (renamed)"}
GenreValues == {NoGenres, EmptyGenres, "rock"}
AlbumNames == {AlbumName, "Album A (Deluxe)"}

ArtistDrafts == [artist_id : ArtistIds, name : ArtistNames, genres : GenreValues]

AlbumDrafts == [album_id : {AlbumId}, name : AlbumNames, primary_artist_id : ArtistIds]

\* One call of upsert_artist(session, artist_obj); last_call keeps the stored
\* rows of that id before and after the call and the dict returned.
UpsertArtistCall ==
    /\ pc = "unit"
    /\ \E d \in ArtistDrafts, how \in {"ok", "raise"} :
         LET r == UpsertArtist(Session(tx, session_state), d, how) IN
         /\ tx' = r.tx
         /\ last_call' = [op |-> "upsert_artist",
                          before |-> {x \in tx.artists : x.artist_id = d.artist_id},
                          after |-> {x \in r.tx.artists : x.artist_id = d.artist_id},
                          draft |-> d, res |-> r.res, row |-> r.row]
    /\ UNCHANGED <<db, db_session, session_state, pc, exc, max_played_at_db,
                   response, idx, new_listens_count, processed_items_count,
                   calls, db_at_start, runs, prev_committed, served, env_fault,
                   escaped>>

\* One call of upsert_album(session, album_obj).
UpsertAlbumCall ==
    /\ pc = "unit"
    /\ \E d \in AlbumDrafts, how \in {"ok", "raise"} :
         LET r == UpsertAlbum(Session(tx, session_state), d, how) IN
         /\ tx' = r.tx
         /\ last_call' = [op |-> "upsert_album",
                          before |-> {x \in tx.albums : x.album_id = d.album_id},
                          after |-> {x \in r.tx.albums : x.album_id = d.album_id},
                          draft |-> d, res |-> r.res, row |-> r.row]
    /\ UNCHANGED <<db, db_session, session_state, pc, exc, max_played_at_db,
                   response, idx, new_listens_count, processed_items_count,
                   calls, db_at_start, runs, prev_committed, served, env_fault,
                   escaped>>

NextCatalog == UpsertArtistCall \/ UpsertAlbumCall

SpecCatalog == InitPodcast /\ [][NextCatalog]_vars

\* --------------------------------------------- parse_release_date, directly
\* The release dates and precisions a payload can carry: well-formed dates,
\* dates the calendar does not hold, other separators, short years, missing
\* zero padding, and precisions the function does not know.
YearFields == {[w |-> 4, v |-> 2023], [w |-> 4, v |-> 2024], [w |-> 4, v |-> 0],
               [w |-> 2, v |-> 23]}
MonthFields == {[w |-> 2, v |-> m] : m \in {0, 2, 3, 12, 13}} \cup {[w |-> 1, v |-> 3]}
DayFields == {[w |-> 2, v |-> d] : d \in {0, 1, 15, 28, 29, 30, 31, 32}}
                 \cup {[w |-> 1, v |-> 5]}

DateStrings ==
    {NoDateStr, DateStr("-", <<>>)}
        \cup {DateStr("-", <<y>>) : y \in YearFields}
        \cup {DateStr(sep, <<y, m>>) : sep \in {"-", "/"}, y \in YearFields,
                                       m \in MonthFields}
        \cup {DateStr(sep, <<y, m, d>>) : sep \in {"-", "/"}, y \in YearFields,
                                          m \in MonthFields, d \in DayFields}

Precisions == {"day", "month", "year", "invalid_precision", "None"}

InitParse ==
    /\ db = EmptyDb
    /\ tx = EmptyDb
    /\ db_session = "None"
    /\ session_state = "active"
    /\ pc = "unit"
    /\ exc = "none"
    /\ max_played_at_db = NoTime
    /\ response = NoResponse
    /\ idx = 0
    /\ new_listens_count = 0
    /\ processed_items_count = 0
    /\ calls = <<>>
    /\ db_at_start = EmptyDb
    /\ runs = 0
    /\ prev_committed = FALSE
    /\ served = <<>>
    /\ env_fault = FALSE
    /\ escaped = "none"
    /\ last_call \in {[op |-> "parse_release_date", date_str |-> d,
                        precision |-> p, result |-> [res |-> "pending"]] :
                           d \in DateStrings, p \in Precisions}

\* One call of parse_release_date(date_str, precision).
ParseReleaseDateCall ==
    /\ pc = "unit"
    /\ last_call.result.res = "pending"
    /\ last_call' = [last_call EXCEPT !.result =
                         ParseReleaseDate(last_call.date_str, last_call.precision)]
    /\ UNCHANGED <<db, tx, db_session, session_state, pc, exc,
                   max_played_at_db, response, idx, new_listens_count,
                   processed_items_count, calls, db_at_start, runs,
                   prev_committed, served, env_fault, escaped>>

NextParse == ParseReleaseDateCall

SpecParse == InitParse /\ [][NextParse]_vars

\* ------------------------------------- upsert_track, two invocations at once
\* Two invocations of the job, each with its own session, upsert the same
\* track and commit.  Here tx, session_state and pc hold one entry per
\* invocation, and last_call holds what the invocations were given: the
\* last_played_at the track had and the two incoming timestamps.  The store
\* is PostgreSQL at its default isolation level (create_engine sets none,
\* database.py 35): INSERT .. ON CONFLICT DO UPDATE locks the row it writes
\* until its transaction ends, and a statement that meets the lock waits and
\* then works on the row as committed.
Invocations == {1, 2}

Other(i) == 3 - i

TrackDraftAt(t) == NormalizeTrackData(t).track

\* The catalog with the track as an earlier invocation left it, played at t.
StoreWithTrack(t) ==
    UpsertTrack(Session(CatalogDb, "active"), TrackDraftAt(t), "ok").tx

InitConcurrent ==
    /\ \E previous \in Times :
         /\ db = StoreWithTrack(previous)
         /\ tx = <<StoreWithTrack(previous), StoreWithTrack(previous)>>
         /\ db_at_start = StoreWithTrack(previous)
         /\ \E a, b \in Times :
              last_call = [op |-> "upsert_track", previous |-> previous,
                           incoming |-> <<a, b>>]
    /\ db_session = "open"
    /\ session_state = <<"active", "active">>
    /\ pc = <<"upsert_track", "upsert_track">>
    /\ exc = "none"
    /\ max_played_at_db = NoTime
    /\ response = NoResponse
    /\ idx = 0
    /\ new_listens_count = 0
    /\ processed_items_count = 0
    /\ calls = <<>>
    /\ runs = 0
    /\ prev_committed = FALSE
    /\ served = <<>>
    /\ env_fault = FALSE
    /\ escaped = "none"

\* A store whose statements do not wait for one another: each invocation
\* works on the row as it was when its transaction began.
WaitsForRowLockMutant(i) == FALSE

\* The other invocation has written the row and has not committed.
WaitsForRowLock(i) == pc[Other(i)] = "commit"

\* database.py 177-205: invocation i executes its upsert statement on the
\* row as committed, unless it has to wait.
ConcurrentUpsertTrack(i) ==
    /\ pc[i] = "upsert_track"
    /\ ~WaitsForRowLock(i)
    /\ LET r == UpsertTrack(Session(db, session_state[i]),
                            TrackDraftAt(last_call.incoming[i]), "ok")
       IN /\ tx' = [tx EXCEPT ![i] = r.tx]
          /\ calls' = Append(calls, Ev("upsert_track", i, r.res))
    /\ pc' = [pc EXCEPT ![i] = "commit"]
    /\ UNCHANGED <<db, db_session, session_state, exc, max_played_at_db,
                   response, idx, new_listens_count, processed_items_count,
                   db_at_start, runs, prev_committed, served, env_fault,
                   escaped, last_call>>

\* main.py 163: invocation i commits.
ConcurrentCommit(i) ==
    /\ pc[i] = "commit"
    /\ db' = SessionCommit(db, tx[i])
    /\ calls' = Append(calls, Ev("commit", i, "row"))
    /\ pc' = [pc EXCEPT ![i] = "done"]
    /\ UNCHANGED <<tx, db_session, session_state, exc, max_played_at_db,
                   response, idx, new_listens_count, processed_items_count,
                   db_at_start, runs, prev_committed, served, env_fault,
                   escaped, last_call>>

NextConcurrent ==
    \E i \in Invocations : ConcurrentUpsertTrack(i) \/ ConcurrentCommit(i)

SpecConcurrent == InitConcurrent /\ [][NextConcurrent]_vars

\* ------------------------------------------------- remote calls, retried
\* utils.py 61: stop_after_attempt(3).
MaxAttempts == 3

\* What one HTTP attempt meets: the request fails in the network (net), or a
\* response arrives with a status and a body; body "empty" is JSON without
\* the key the caller looks for.
NoException == [class |-> "none", cause |-> "none", status |-> 0]

HttpStatuses == {200, 400, 401, 403, 404, 429, 500, 503}

HttpOutcomes ==
    {[net |-> n, status |-> 0, body |-> "empty"] : n \in {"ConnectionError", "Timeout"}}
        \cup {[net |-> "ok", status |-> 200, body |-> b] : b \in {"a", "b", "empty"}}
        \cup {[net |-> "ok", status |-> st, body |-> "empty"] : st \in HttpStatuses \ {200}}

Exception(class, cause, status) == [class |-> class, cause |-> cause, status |-> status]

\* What one execution of a decorated function leaves: the value returned, or
\* the exception raised.
Returned(value) == [value |-> value, raised |-> NoException]
Raised(e) == [value |-> "none", raised |-> e]

\* spotify_data.py 43-62: requests.get, raise_for_status (HTTPError for 4xx
\* and 5xx), response.json(); every RequestException becomes SpotifyAPIError
\* with the request's exception as its cause.
GetRecentlyPlayedTracksAttempt(o) ==
    IF o.net # "ok" THEN Raised(Exception("SpotifyAPIError", o.net, 0))
    ELSE IF o.status >= 400
    THEN Raised(Exception("SpotifyAPIError", "HTTPError", o.status))
    ELSE Returned(o.body)

\* spotify_client.py 26-42 and 73-89: requests.post is not guarded, so a
\* network failure is raised as it is; 400, 401 and 403 become
\* SpotifyAuthError, every other status that raise_for_status rejects becomes
\* SpotifyAPIError; a body without access_token is SpotifyAuthError.
GetAccessTokenFromRefreshAttempt(o) ==
    IF o.net # "ok" THEN Raised(Exception(o.net, "none", 0))
    ELSE IF o.status \in {400, 401, 403}
    THEN Raised(Exception("SpotifyAuthError", "none", o.status))
    ELSE IF o.status >= 400
    THEN Raised(Exception("SpotifyAPIError", "HTTPError", o.status))
    ELSE IF o.body = "empty"
    THEN Raised(Exception("SpotifyAuthError", "none", o.status))
    ELSE Returned(o.body)

RemoteCalls == {"get_recently_played_tracks", "get_access_token_from_refresh"}

Attempt(fn, o) ==
    IF fn = "get_recently_played_tracks" THEN GetRecentlyPlayedTracksAttempt(o)
    ELSE GetAccessTokenFromRefreshAttempt(o)

\* A predicate that retries every SpotifyAPIError.
IsRetryableApiExceptionMutant(e) ==
    e.class \in {"ConnectionError", "Timeout", "SpotifyAPIError"}

\* utils.py 12-58.
IsRetryableApiException(e) ==
    IF e.class = "SpotifyAuthError" THEN FALSE
    ELSE IF e.class \in {"ConnectionError", "Timeout"} THEN TRUE
    ELSE IF e.class = "SpotifyAPIError"
    THEN \/ e.cause \in {"ConnectionError", "Timeout"}
         \/ e.cause = "HTTPError" /\ (e.status = 429 \/ e.status \in 500..599)
    ELSE FALSE

\* A decorator that stops one attempt later.
StopAfterAttemptMutant(attempt_number) == attempt_number >= MaxAttempts + 1

\* utils.py 61: stop_after_attempt(3).
StopAfterAttempt(attempt_number) == attempt_number >= MaxAttempts

\* utils.py 60-75: retry(...) without reraise: when the stop condition ends the
\* retries, tenacity raises RetryError from the last exception.
RetryErrorClass == "RetryError"

\* main.py 172-204: the except clause that handles an exception of a class.
ExceptClauseFor(class) ==
    IF class \in {"ConfigurationError", "DatabaseError", "SpotifyAuthError",
                  "SpotifyAPIError"}
    THEN class ELSE "Exception"

\* The orchestrator, its session open, is about to make one remote call.
InitRetry ==
    /\ db = EmptyDb
    /\ tx = EmptyDb
    /\ db_session = "open"
    /\ session_state = "active"
    /\ pc = "attempt"
    /\ exc = "none"
    /\ max_played_at_db = NoTime
    /\ response = NoResponse
    /\ idx = 1
    /\ new_listens_count = 0
    /\ processed_items_count = 0
    /\ calls = <<>>
    /\ db_at_start = EmptyDb
    /\ runs = 0
    /\ prev_committed = FALSE
    /\ served = <<>>
    /\ env_fault = FALSE
    /\ escaped = "none"
    /\ last_call \in {[op |-> fn, outcomes |-> <<>>, result |-> "pending",
                       value |-> "none"] : fn \in RemoteCalls}

\* One attempt of the decorated function (idx is tenacity's attempt_number):
\* return its value, re-raise an exception the predicate does not retry,
\* raise RetryError when the stop condition holds, or sleep and try again.
HttpAttempt ==
    /\ pc = "attempt"
    /\ \E o \in HttpOutcomes :
         LET a == Attempt(last_call.op, o)
             outs == Append(last_call.outcomes, o)
             log == Append(calls, Ev("http_attempt", idx, a.raised.class))
         IN
         IF a.raised = NoException
         THEN /\ last_call' = [last_call EXCEPT !.outcomes = outs,
                                                !.result = "returned",
                                                !.value = a.value]
              /\ calls' = log
              /\ pc' = "done"
              /\ UNCHANGED <<idx, exc, env_fault>>
         ELSE IF ~IsRetryableApiException(a.raised)
         THEN /\ last_call' = [last_call EXCEPT !.outcomes = outs,
                                                !.result = a.raised.class]
              /\ calls' = log
              /\ env_fault' = TRUE
              /\ Raise(ExceptClauseFor(a.raised.class))
              /\ UNCHANGED idx
         ELSE IF StopAfterAttempt(idx)
         THEN /\ last_call' = [last_call EXCEPT !.outcomes = outs,
                                                !.result = RetryErrorClass]
              /\ calls' = log
              /\ env_fault' = TRUE
              /\ Raise(ExceptClauseFor(RetryErrorClass))
              /\ UNCHANGED idx
         ELSE /\ last_call' = [last_call EXCEPT !.outcomes = outs]
              /\ calls' = Append(log, Ev("sleep", idx, "row"))
              /\ idx' = idx + 1
              /\ UNCHANGED <<pc, exc, env_fault>>
    /\ UNCHANGED <<db, tx, db_session, session_state, max_played_at_db,
                   response, new_listens_count, processed_items_count,
                   db_at_start, runs, prev_committed, served, escaped>>

NextRetry ==
    \/ HttpAttempt
    \/ Except
    \/ Finally

SpecRetry == InitRetry /\ [][NextRetry]_vars

\* ------------------------------------------- a run overlapped by another
\* Another invocation of the job commits one item (its catalog rows and its
\* Listen) after this run has read the high-water mark and before it fetches.
\* The statements this run executes afterwards see the committed rows (the
\* engine keeps PostgreSQL's default isolation level, database.py 35).
OtherInvocationCommits ==
    /\ pc = "get_recently_played_tracks"
    /\ db = db_at_start
    /\ \E kind \in {"track", "episode"}, t \in Times :
         LET o == NormalizeAndWrite(Session(db, "active"), db, RawItem(kind, t),
                                    1, NoFault)
         IN /\ db' = o.tx
            /\ tx' = o.tx
    /\ UNCHANGED <<db_session, session_state, pc, exc, max_played_at_db,
                   response, idx, new_listens_count, processed_items_count,
                   calls, db_at_start, runs, prev_committed, served, env_fault,
                   escaped, last_call>>

NextOverlapped ==
    \/ GetSpotifyCredentials
    \/ GetSession
    \/ GetAccessToken
    \/ GetMaxPlayedAt
    \/ OtherInvocationCommits
    \/ GetRecentlyPlayedTracks
    \/ ProcessItem
    \/ Commit
    \/ Except
    \/ Finally

SpecOverlapped == Init /\ [][NextOverlapped]_vars

\* ---------------------------------------------------------------- properties
CallIndices(op) == {k \in 1..Len(calls) : calls[k].op = op}

\* get_session returned a session in this run.
SessionOpened == \E k \in CallIndices("get_session") : calls[k].res = "row"

\* insert_listen returned a row in this run.
InsertedARow == \E k \in CallIndices("insert_listen") : calls[k].res = "row"

\* insert_listen answered None in this run.
InsertAnsweredNone == \E k \in CallIndices("insert_listen") : calls[k].res = "none"

PlayedAts(listens) == {l.played_at : l \in listens}

\* The Listen rows persisted since this run started.
NewListens == db.listens \ db_at_start.listens

\* The item whose processing made a call at loop position i.
ItemAt(i) == Reversed(response.items)[i]

\* The item carries a readable played_at that is not newer than the
\* high-water mark this run read.
NotNewer(item) ==
    /\ max_played_at_db # NoTime
    /\ ParsePlayedAt(item.played_at).ok
    /\ ParsePlayedAt(item.played_at).dt <= max_played_at_db

\* C1: after any sequence of runs over arbitrary pages, no two persisted
\* Listen rows have the same played_at.
C1_UniquePlayedAt ==
    \A l1, l2 \in db.listens : l1.played_at = l2.played_at => l1 = l2

\* Two Listens are persisted and the run at hand offered a played_at twice.
C1_Witness ==
    /\ Cardinality(db.listens) >= 2
    /\ InsertAnsweredNone

\* C2: for the page [episode at T3, track A at T2, track A at T2], T2 < T3,
\* fetched with no Listen stored and no failure of the environment, the run
\* ends without an exception, commits, and persists exactly two Listens, one
\* at T2 and one at T3.
C2_DuplicateInPageIsSkipped ==
    \A t2, t3 \in Times :
        (/\ t2 < t3
         /\ pc = "returned"
         /\ ~env_fault
         /\ db_at_start.listens = {}
         /\ response.items = <<RawItem("episode", t3), RawItem("track", t2),
                               RawItem("track", t2)>>)
        => /\ exc = "none"
           /\ Committed
           /\ InsertAnsweredNone
           /\ Cardinality(db.listens) = 2
           /\ PlayedAts(db.listens) = {t2, t3}

\* C4: no call (normalize_item, an upsert, insert_listen) is made for an
\* item whose played_at is not newer than the high-water mark the run read,
\* and no Listen of this run is at or below that mark.
C4_HighWaterFiltering ==
    /\ \A k \in 1..Len(calls) : calls[k].pos # 0 => ~NotNewer(ItemAt(calls[k].pos))
    /\ max_played_at_db # NoTime =>
         \A l \in (tx.listens \cup db.listens) \ db_at_start.listens :
             l.played_at > max_played_at_db

\* A run that read a mark, was served a valid item at or below it and
\* inserted a newer one.
C4_Witness ==
    /\ pc = "returned"
    /\ InsertedARow
    /\ \E i \in 1..Len(response.items) :
         /\ response.items[i].kind \in {"track", "episode"}
         /\ NotNewer(response.items[i])

C7_ReturnsNormally ==
    /\ escaped = "none"
    /\ exc # "none" => pc \in {"except", "finally", "returned"}

\* A run returned after an unexpected exception and a close that raised.
C7_Witness ==
    /\ pc = "returned"
    /\ exc = "Exception"
    /\ \E k \in CallIndices("close") : calls[k].res = "raise"

\* C8: when a step raised after the session was opened, by the time the run
\* returns rollback was called exactly once and close exactly once, rollback
\* first.
C8_RollbackThenClose ==
    (pc = "returned" /\ exc # "none" /\ SessionOpened)
        => /\ Cardinality(CallIndices("rollback")) = 1
           /\ Cardinality(CallIndices("close")) = 1
           /\ \A r \in CallIndices("rollback"), c \in CallIndices("close") : r < c

\* The fetch raised SpotifyAPIError with the session open, and the run returned.
C8_Witness ==
    /\ pc = "returned"
    /\ exc = "SpotifyAPIError"
    /\ SessionOpened
    /\ CallIndices("rollback") # {}

\* C9: close is never called twice, and a run that opened the session has
\* called close exactly once, as its last call, when it returns: after a
\* commit, with nothing to commit, after a failure, after a rollback that
\* raised.
C9_CloseExactlyOnce ==
    /\ Cardinality(CallIndices("close")) <= 1
    /\ (pc = "returned" /\ SessionOpened)
         => /\ Cardinality(CallIndices("close")) = 1
            /\ calls[Len(calls)].op = "close"

\* A run whose rollback raised has returned.
C9_Witness ==
    /\ pc = "returned"
    /\ SessionOpened
    /\ \E k \in CallIndices("rollback") : calls[k].res = "raise"

\* C10: commit is called at most once in a run, after the loop has passed
\* the last item, only if an insert_listen of the run returned a row, and
\* only rollback and close follow it.
C10_CommitOnceAfterLoop ==
    /\ Cardinality(CallIndices("commit")) <= 1
    /\ \A c \in CallIndices("commit") :
         /\ \E k \in 1..(c - 1) : calls[k].op = "insert_listen" /\ calls[k].res = "row"
         /\ \A k \in (c + 1)..Len(calls) : calls[k].op \in {"rollback", "close"}
         /\ response.has_items
         /\ idx = Len(response.items) + 1
    /\ (pc = "returned" /\ ~InsertedARow) => CallIndices("commit") = {}

\* A run over a full page committed and returned.
C10_Witness ==
    /\ pc = "returned"
    /\ Len(response.items) = MaxPage
    /\ Committed
    /\ processed_items_count > new_listens_count

\* C3 (SpecRepeat): a run that follows a run that committed and is served the
\* same page inserts no Listen and leaves every table, in the session and
\* committed, as the first run left it.
C3_Idempotence ==
    prev_committed => /\ new_listens_count = 0
                      /\ tx = db_at_start
                      /\ db = db_at_start

\* The second run was served the full page again and returned.
C3_Witness ==
    /\ prev_committed
    /\ pc = "returned"
    /\ response.has_items
    /\ response.items = served
    /\ Len(served) = MaxPage
    /\ exc = "none"

UpsertOps == {"upsert_artist", "upsert_album", "upsert_track"}

\* The loop positions at which an upsert of the track branch returned no row.
IncompletePositions ==
    {calls[k].pos : k \in {j \in 1..Len(calls) :
                              calls[j].op \in UpsertOps /\ calls[j].res = "none"}}

RaisedAt(p) == \E k \in 1..Len(calls) : calls[k].pos = p /\ calls[k].res = "raise"

\* C11 (SpecSimulated): when an upsert of a track item returns no result,
\* insert_listen is not called for that item and no Listen is created for
\* it, and, unless a call for the item raised, the loop goes on to the next
\* item: the run is not aborted by this item.
C11_PartialEntityFailure ==
    \A p \in IncompletePositions :
        /\ ~\E k \in CallIndices("insert_listen") : calls[k].pos = p
        /\ Cardinality(tx.listens) <=
             Cardinality({calls[k].pos : k \in CallIndices("insert_listen")})
        /\ ~RaisedAt(p) => idx > p

\* upsert_track returned no row for the first item processed, the next item
\* was inserted and the run committed.
C11_Witness ==
    /\ pc = "returned"
    /\ 1 \in IncompletePositions
    /\ \E k \in CallIndices("insert_listen") : calls[k].pos = 2 /\ calls[k].res = "row"
    /\ Committed

WriteOps ==
    {"upsert_artist", "upsert_album", "upsert_track", "upsert_podcast_series",
     "upsert_podcast_episode", "insert_listen"}

\* The loop positions at which an upsert or insert_listen raised.
RaisedPositions ==
    {calls[k].pos : k \in {j \in 1..Len(calls) :
                              calls[j].op \in WriteOps /\ calls[j].res = "raise"}}

\* C12: once an upsert or insert_listen has raised for an item, no call is
\* made for a later item, commit is not called, and nothing this run wrote
\* (Listens and catalog rows of earlier items included) is persisted; when
\* the run returns the session's view holds none of it either.
C12_RaiseAbortsAndPersistsNothing ==
    \A p \in RaisedPositions :
        /\ \A k \in 1..Len(calls) : calls[k].pos <= p
        /\ CallIndices("commit") = {}
        /\ db = db_at_start
        /\ exc # "none"
        /\ pc = "returned" => tx = db_at_start

\* insert_listen raised for the second item after the first item's Listen
\* and catalog rows were written, and the run returned.
C12_Witness ==
    /\ pc = "returned"
    /\ 2 \in RaisedPositions
    /\ \E k \in CallIndices("insert_listen") : calls[k].pos = 1 /\ calls[k].res = "row"
    /\ Len(response.items) = 3

\* The discriminator of a Listen agrees with its item reference.
DiscriminatorAgrees(l) ==
    /\ l.item_type \in {"track", "episode"}
    /\ l.item_type = "track" => l.track_id # NoId /\ l.episode_id = NoId
    /\ l.item_type = "episode" => l.episode_id # NoId /\ l.track_id = NoId

\* C13 (SpecListen): whatever Listen objects are handed to the storage, no
\* stored Listen has item_type 'track' with a null track_id, item_type
\* 'episode' with a null episode_id, or both track_id and episode_id set,
\* and an insert of such a Listen is answered with no row.
C13_DiscriminatorEnforced ==
    /\ \A l \in db.listens \cup tx.listens :
         /\ DiscriminatorAgrees(l)
         /\ ~(l.track_id # NoId /\ l.episode_id # NoId)
    /\ (last_call.op = "insert_listen" /\ ~DiscriminatorAgrees(last_call.draft))
         => last_call.res = "none"

\* A track Listen without track_id was refused while Listens are stored.
C13_Witness ==
    /\ last_call.op = "insert_listen"
    /\ last_call.draft.item_type = "track"
    /\ last_call.draft.track_id = NoId
    /\ last_call.draft.episode_id = NoId
    /\ last_call.res = "none"
    /\ Cardinality(db.listens) = MaxListens

\* C14 (SpecListen): no stored track Listen has a null artist_id or album_id,
\* and no stored episode Listen has a non-null track_id, artist_id or
\* album_id.
C14_ReferencePatternEnforced ==
    \A l \in db.listens :
        /\ l.item_type = "track" => l.artist_id # NoId /\ l.album_id # NoId
        /\ l.item_type = "episode" =>
              l.track_id = NoId /\ l.artist_id = NoId /\ l.album_id = NoId

\* An HTTP attempt ended in a connection failure, a timeout, a 429 or a 5xx.
TransientOutcome(o) ==
    \/ o.net \in {"ConnectionError", "Timeout"}
    \/ o.net = "ok" /\ (o.status = 429 \/ o.status \in 500..599)

\* An HTTP attempt succeeded.
SuccessfulOutcome(o) == o.net = "ok" /\ o.status = 200 /\ o.body # "empty"

RemoteCallMade == last_call.op \in RemoteCalls

SleepIndices == CallIndices("sleep")

\* C15 (SpecRetry): one remote call makes at most 3 HTTP attempts; every
\* attempt but the last ended in a connection failure, a timeout, a 429 or a
\* 5xx; an attempt that succeeds is the last one and its result is what the
\* call returns.
C15_BoundedRetry ==
    RemoteCallMade =>
        LET outs == last_call.outcomes IN
        /\ Len(outs) <= 3
        /\ Cardinality(CallIndices("http_attempt")) = Len(outs)
        /\ \A i \in 1..(Len(outs) - 1) : TransientOutcome(outs[i])
        /\ \A i \in 1..Len(outs) :
             SuccessfulOutcome(outs[i]) =>
                 /\ i = Len(outs)
                 /\ last_call.result = "returned"
                 /\ last_call.value = outs[i].body
        /\ last_call.result = "returned" =>
             outs # <<>> /\ last_call.value = outs[Len(outs)].body

\* Two transient failures, then the third attempt succeeded and was returned.
C15_Witness ==
    /\ RemoteCallMade
    /\ Len(last_call.outcomes) = 3
    /\ last_call.outcomes[1].net = "ConnectionError"
    /\ last_call.outcomes[2].status = 503
    /\ SuccessfulOutcome(last_call.outcomes[3])
    /\ last_call.result = "returned"

\* C16 (SpecRetry): a token refresh answered with 400, 401 or 403 raises
\* SpotifyAuthError, and a history fetch answered with 401 or 404 raises
\* SpotifyAPIError, after a single HTTP attempt and without a backoff sleep.
C16_NoRetryOnClientErrors ==
    (RemoteCallMade /\ last_call.outcomes # <<>>) =>
        LET first == last_call.outcomes[1] IN
        /\ (last_call.op = "get_access_token_from_refresh"
              /\ first.net = "ok" /\ first.status \in {400, 401, 403})
             => /\ Len(last_call.outcomes) = 1
                /\ SleepIndices = {}
                /\ last_call.result = "SpotifyAuthError"
                /\ exc = "SpotifyAuthError"
        /\ (last_call.op = "get_recently_played_tracks"
              /\ first.net = "ok" /\ first.status \in {401, 404})
             => /\ Len(last_call.outcomes) = 1
                /\ SleepIndices = {}
                /\ last_call.result = "SpotifyAPIError"
                /\ exc = "SpotifyAPIError"

\* The history fetch was answered with 404 and the run returned.
C16_Witness ==
    /\ last_call.op = "get_recently_played_tracks"
    /\ Len(last_call.outcomes) = 1
    /\ last_call.outcomes[1].status = 404
    /\ pc = "returned"

\* C17 (SpecRetry): when all attempts of the history fetch end in a
\* transient failure, the orchestrator receives SpotifyAPIError, its
\* `except SpotifyAPIError` clause handles it, rollback is called and the
\* run ends.
C17_ExhaustedRetriesAreSpotifyAPIError ==
    (/\ last_call.op = "get_recently_played_tracks"
     /\ pc = "returned"
     /\ Len(last_call.outcomes) = MaxAttempts
     /\ \A i \in 1..Len(last_call.outcomes) : TransientOutcome(last_call.outcomes[i]))
    => /\ last_call.result = "SpotifyAPIError"
       /\ exc = "SpotifyAPIError"
       /\ Cardinality(CallIndices("rollback")) = 1

\* get_max_played_at returned in this run.
HighWaterMarkRead == \E k \in CallIndices("get_max_played_at") : calls[k].res = "row"

\* C18: a run calls get_recently_played_tracks at most once, and exactly
\* once when it got as far as the fetch; the call carries limit 50 and, as
\* `after`, the high-water mark of the stored Listens in epoch milliseconds
\* (1000 per second), or no lower bound when no Listen is stored.
C18_OneFetchWithLowerBound ==
    /\ Cardinality(CallIndices("get_recently_played_tracks")) <= 1
    /\ (pc = "returned" /\ HighWaterMarkRead)
         => Cardinality(CallIndices("get_recently_played_tracks")) = 1
    /\ CallIndices("get_recently_played_tracks") # {} =>
         /\ last_call.op = "get_recently_played_tracks"
         /\ last_call.limit = 50
         /\ db_at_start.listens = {} => last_call.after = NoAfter
         /\ db_at_start.listens # {} =>
              last_call.after = 1000 * Max(PlayedAts(db_at_start.listens))

\* A run that found Listens stored fetched with a lower bound and returned.
C18_Witness ==
    /\ pc = "returned"
    /\ db_at_start.listens # {}
    /\ last_call.op = "get_recently_played_tracks"
    /\ last_call.after = 1000 * MaxPlayedAt(db_at_start.listens)
    /\ InsertedARow

\* C19: get_max_played_at returns None when the session sees no Listen;
\* otherwise it returns the greatest played_at of the Listens the session
\* sees, pending ones included, as an instant that carries UTC.
C19_MaxPlayedAt ==
    last_call.op = "get_max_played_at" =>
        /\ last_call.visible = {} => last_call.res = NoneValue
        /\ last_call.visible # {} =>
             /\ last_call.res.tzinfo = "utc"
             /\ last_call.res.at \in PlayedAts(last_call.visible)
             /\ \A l \in last_call.visible : l.played_at <= last_call.res.at

\* The driver handed back a naive value, and the session saw two Listens,
\* one of them not yet committed.
C19_Witness ==
    /\ last_call.op = "get_max_played_at"
    /\ last_call.driver_tzinfo = "None"
    /\ Cardinality(last_call.visible) = 2
    /\ Cardinality(db.listens) = 1
    /\ last_call.res = [at |-> 2, tzinfo |-> "utc"]

PodcastUpsertOps == {"upsert_podcast_series", "upsert_podcast_episode"}

\* C20: a podcast upsert that returns leaves the stored row of an id that
\* already exists as it was, whatever the draft holds, and stores the draft
\* as the row of an id that did not exist; no other row of that id appears.
C20_PodcastUpsertDoesNothingOnConflict ==
    (last_call.op \in PodcastUpsertOps /\ last_call.res = "row") =>
        /\ last_call.before # {} => last_call.after = last_call.before
        /\ last_call.before = {} => last_call.after = {last_call.draft}

\* A series that is stored met a draft of the same id with another name.
C20_Witness ==
    /\ last_call.op = "upsert_podcast_series"
    /\ last_call.res = "row"
    /\ last_call.before # {}
    /\ last_call.draft \notin last_call.before
    /\ tx.episodes # {}

CatalogUpsertOps == {"upsert_artist", "upsert_album"}

\* The draft as the columns hold it: a genres of None is the empty list.
AsStored(draft) ==
    IF "genres" \in DOMAIN draft /\ draft.genres = NoGenres
    THEN [draft EXCEPT !.genres = EmptyGenres]
    ELSE draft

\* C21 as stated: after upsert_artist or upsert_album returned, the stored
\* row of the draft's id equals the draft, whether the id was new or not.
C21_StoredRowEqualsDraft ==
    (last_call.op \in CatalogUpsertOps /\ last_call.res = "row") =>
        last_call.after = {last_call.draft}

\* C21, amended: after upsert_artist or upsert_album returned, the stored
\* row of the draft's id holds the draft's value in every column, whether
\* the id was new or not, except that genres None is stored as the empty list.
C21_OverwriteOnConflict ==
    (last_call.op \in CatalogUpsertOps /\ last_call.res = "row") =>
        last_call.after = {AsStored(last_call.draft)}

\* An artist that is stored met a draft of the same id with other values.
C21_Witness ==
    /\ last_call.op = "upsert_artist"
    /\ last_call.res = "row"
    /\ last_call.before # {}
    /\ AsStored(last_call.draft) \notin last_call.before
    /\ tx.albums # {}

AllUpsertOps ==
    {"upsert_artist", "upsert_album", "upsert_track",
     "upsert_podcast_series", "upsert_podcast_episode"}

\* C22: what an upsert returns is the row of the draft's id as it is stored
\* after the call, also when that row existed before the call.
C22_ReturnsStoredRow ==
    (last_call.op \in AllUpsertOps /\ last_call.res = "row") =>
        last_call.after = {last_call.row}

\* C23: insert_listen answers None only when a Listen with the draft's
\* played_at is already stored; a draft that breaks the discriminator check
\* or a foreign key is not answered with None.
C23_NoneOnlyForDuplicatePlayedAt ==
    (last_call.op = "insert_listen" /\ last_call.res = "none") =>
        \E r \in tx.listens : r.played_at = last_call.draft.played_at

\* C24: for an episode item without 'show', normalize_item returns None
\* without raising, and the loop goes on to the next item.
C24_MissingShowIsSkipped ==
    \A k \in CallIndices("normalize_item") :
        ItemAt(calls[k].pos).kind = "episode_no_show" =>
            /\ calls[k].res = "none"
            /\ idx > calls[k].pos
            /\ exc = "none"

\* No 'track', no played_at, a played_at that does not parse, or a type tag
\* that is neither 'track' nor 'episode'.
Unusable(item) ==
    \/ item.kind \in {"absent", "unknown"}
    \/ item.played_at \in {NoTime, BadTime}

SpellsDate(date_str, precision) ==
    LET f == date_str.fields
        n == IF precision = "day" THEN 3 ELSE IF precision = "month" THEN 2 ELSE 1
    IN
    /\ date_str.kind = "str"
    /\ precision \in {"day", "month", "year"}
    /\ Len(f) = n
    /\ (n > 1 => date_str.sep = "-")
    /\ f[1].w = 4 /\ f[1].v \in 1..9999
    /\ (n >= 2 => f[2].v \in 1..12)
    /\ (n >= 3 => f[3].v >= 1
                  /\ f[3].v <= (IF f[2].v \in {4, 6, 9, 11} THEN 30
                                ELSE IF f[2].v # 2 THEN 31
                                ELSE IF f[1].v % 4 = 0 /\ (f[1].v % 100 # 0 \/ f[1].v % 400 = 0)
                                     THEN 29 ELSE 28))

\* C26: parse_release_date never raises; for a string that spells a date in
\* the precision's format it returns that date for 'day', the first of the
\* month for 'month' and January 1 for 'year'; for every other string, an
\* unknown precision, the empty string or None it returns None.
C26_ParseReleaseDate ==
    (last_call.op = "parse_release_date" /\ last_call.result.res # "pending") =>
        LET d == last_call.date_str
            p == last_call.precision
            r == last_call.result
        IN
        /\ r.res # "raise"
        /\ SpellsDate(d, p) =>
             /\ r.res = "date"
             /\ r.date.year = d.fields[1].v
             /\ r.date.month = (IF p = "year" THEN 1 ELSE d.fields[2].v)
             /\ r.date.day = (IF p = "day" THEN d.fields[3].v ELSE 1)
        /\ ~SpellsDate(d, p) => r = [res |-> "None"]

\* February 30 with precision 'day' was answered with None.
C26_Witness ==
    /\ last_call.op = "parse_release_date"
    /\ last_call.precision = "day"
    /\ last_call.date_str = DateStr("-", <<[w |-> 4, v |-> 2023], [w |-> 2, v |-> 2],
                                          [w |-> 2, v |-> 30]>>)
    /\ last_call.result = [res |-> "None"]

\* C27: every step of every run, whether the run commits, fails or has
\* nothing to commit, leaves each committed Listen row in the table with
\* every field as it was: the set of committed Listen rows only grows.
C27_ListensAreCreateOnly ==
    [][db.listens \subseteq db'.listens]_vars

\* A later run found Listens committed, committed more and returned.
C27_Witness ==
    /\ pc = "returned"
    /\ runs = MaxRuns
    /\ db_at_start.listens # {}
    /\ Committed
    /\ db_at_start.listens \subseteq db.listens
    /\ db.listens # db_at_start.listens

\* The call at k was made after a call of op that returned.
After(k, op) == \E j \in 1..(k - 1) : calls[j].op = op /\ calls[j].res = "row"

\* C28: the steps of a run are credentials, access token, session,
\* high-water mark, fetch, each begun only after the one before it returned:
\* without credentials no session is opened and no remote call is made, and
\* without a token no session is opened.
C28_StepOrder ==
    /\ \A k \in CallIndices("get_access_token_from_refresh") :
           After(k, "get_spotify_credentials")
    /\ \A k \in CallIndices("get_session") :
           After(k, "get_access_token_from_refresh")
    /\ \A k \in CallIndices("get_max_played_at") : After(k, "get_session")
    /\ \A k \in CallIndices("get_recently_played_tracks") :
           After(k, "get_max_played_at")

\* The item of the page that the loop handles at position p when it walks
\* the page from its last item to its first.
FromTheEnd(p) == response.items[Len(response.items) - p + 1]

\* The items of the page that carry a readable played_at are newest first.
NewestFirst ==
    \A i, j \in 1..Len(response.items) :
        (/\ i < j
         /\ ParsePlayedAt(response.items[i].played_at).ok
         /\ ParsePlayedAt(response.items[j].played_at).ok)
        => response.items[i].played_at >= response.items[j].played_at

\* C29: the calls made for the items of a page come in the reverse of the
\* page order: their positions counted from the end of the page never
\* decrease, and a Listen inserted at position p carries the played_at of the
\* p-th item from the end.  For a newest-first page the played_at values
\* handed to insert_listen therefore never decrease.
C29_OldestFirst ==
    /\ \A k1, k2 \in 1..Len(calls) :
         (k1 < k2 /\ calls[k1].pos # 0 /\ calls[k2].pos # 0)
         => calls[k1].pos <= calls[k2].pos
    /\ (pc \in {"loop", "commit"} /\ session_state = "active") =>
         \A k \in CallIndices("insert_listen") :
             calls[k].res = "row" =>
                 \E l \in tx.listens \ db_at_start.listens :
                     l.played_at = FromTheEnd(calls[k].pos).played_at
    /\ NewestFirst =>
         \A k1, k2 \in CallIndices("insert_listen") :
             k1 < k2 => FromTheEnd(calls[k1].pos).played_at
                            <= FromTheEnd(calls[k2].pos).played_at

\* A newest-first page of an episode and a track was written oldest first
\* and committed.
C29_Witness ==
    /\ pc = "returned"
    /\ Committed
    /\ \E t \in Times :
         /\ t - 1 \in Times
         /\ response.items = <<RawItem("episode", t), RawItem("track", t - 1)>>
    /\ Cardinality(NewListens) = 2

TrackOrder == <<"upsert_artist", "upsert_album", "upsert_track", "insert_listen">>

EpisodeOrder == <<"upsert_podcast_series", "upsert_podcast_episode", "insert_listen">>

IsPrefix(a, b) == Len(a) <= Len(b) /\ \A i \in 1..Len(a) : a[i] = b[i]

\* The storage operations logged for the item at position p, in order.
StorageOpsAt(p) ==
    LET at == SelectSeq(calls, LAMBDA e : e.pos = p /\ e.op \in WriteOps) IN
    [i \in 1..Len(at) |-> at[i].op]

\* C30: the storage operations for a track item are upsert_artist,
\* upsert_album, upsert_track, insert_listen in this order, for an episode
\* item upsert_podcast_series, upsert_podcast_episode, insert_listen, each
\* at most once and none skipped over; insert_listen comes only after every
\* upsert of its item has returned.
C30_StorageOrder ==
    \A p \in 1..Len(response.items) :
        /\ ItemAt(p).kind = "track" => IsPrefix(StorageOpsAt(p), TrackOrder)
        /\ ItemAt(p).kind = "episode" => IsPrefix(StorageOpsAt(p), EpisodeOrder)
        /\ ItemAt(p).kind \notin {"track", "episode"} => StorageOpsAt(p) = <<>>
        /\ \A k \in CallIndices("insert_listen") :
             calls[k].pos = p =>
                 \A j \in 1..(k - 1) :
                     (calls[j].pos = p /\ calls[j].op \in WriteOps)
                     => calls[j].res = "row"

\* A track item and an episode item were both written in full.
C30_Witness ==
    /\ pc = "returned"
    /\ \E p, q \in 1..Len(response.items) :
         /\ ItemAt(p).kind = "track" /\ StorageOpsAt(p) = TrackOrder
         /\ ItemAt(q).kind = "episode" /\ StorageOpsAt(q) = EpisodeOrder
    /\ Cardinality(NewListens) = 2

\* C31: a run adds no Listen, pending or committed, whose played_at is at or
\* before the played_at of a Listen that was committed when the run started,
\* also when the page holds an unrecorded play older than that Listen.
C31_NothingBehindTheMark ==
    \A l \in (db.listens \cup tx.listens) \ db_at_start.listens :
        \A m \in db_at_start.listens : l.played_at > m.played_at

\* A later run found the play at 2 committed and nothing at 1, was served the
\* unrecorded play at 1 together with a play at 3, and committed only the
\* play at 3.
C31_Witness ==
    /\ pc = "returned"
    /\ PlayedAts(db_at_start.listens) = {2}
    /\ \E i, j \in 1..Len(response.items) :
         /\ response.items[i] = RawItem("track", 1)
         /\ response.items[j] = RawItem("track", 3)
    /\ Committed
    /\ PlayedAts(db.listens) = {2, 3}

StoredLastPlayedAt ==
    (CHOOSE r \in db.tracks : r.track_id = TrackId).last_played_at

\* C32: when two invocations have upserted the same existing track with
\* timestamps A and B and both have committed, in whatever order their
\* statements and commits came, the stored last_played_at is the greatest of
\* the previous value, A and B.
C32_ConcurrentUpsertsKeepTheMax ==
    (\A i \in Invocations : pc[i] = "done") =>
        StoredLastPlayedAt =
            Max({last_call.previous, last_call.incoming[1], last_call.incoming[2]})

\* The invocation with the newer timestamp committed first, the one with the
\* older timestamp after it, and the newer value is stored.
C32_Witness ==
    /\ \A i \in Invocations : pc[i] = "done"
    /\ last_call.incoming[1] > last_call.incoming[2]
    /\ last_call.incoming[2] > last_call.previous
    /\ calls[Len(calls)] = Ev("commit", 2, "row")
    /\ StoredLastPlayedAt = last_call.incoming[1]

\* C33 (SpecUpsert): upsert_track over a stored track whose last_played_at is
\* null, with a draft that carries timestamp I, stores last_played_at = I.
C33_NullLastPlayedAtTakesIncoming ==
    (last_call.op = "upsert_track" /\ last_call.res = "row") =>
        \A old \in last_call.before :
            (old.last_played_at = NoTime /\ last_call.draft.last_played_at # NoTime) =>
                /\ last_call.row.last_played_at = last_call.draft.last_played_at
                /\ \A t \in tx.tracks : t.track_id = old.track_id =>
                       t.last_played_at = last_call.draft.last_played_at

\* The rows of the committed tables a Listen refers to.
ListenRefersToRows(l) ==
    \/ /\ l.item_type = "track"
       /\ l.track_id # NoId /\ l.artist_id # NoId /\ l.album_id # NoId
       /\ \E r \in db.tracks : r.track_id = l.track_id
       /\ \E r \in db.artists : r.artist_id = l.artist_id
       /\ \E r \in db.albums : r.album_id = l.album_id
    \/ /\ l.item_type = "episode"
       /\ l.episode_id # NoId
       /\ \E e \in db.episodes :
              /\ e.episode_id = l.episode_id
              /\ \E r \in db.series : r.series_id = e.series_id

\* C34 (Spec): in every committed state each track Listen has non-null
\* track_id, artist_id and album_id that refer to committed track, artist and
\* album rows, and each episode Listen has an episode_id that refers to a
\* committed episode whose series is committed.
C34_ListensReferToExistingRows ==
    \A l \in db.listens : ListenRefersToRows(l)

\* A second run has committed an episode Listen next to a track Listen of the
\* first run.
C34_Witness ==
    /\ runs = 2
    /\ Committed
    /\ \E l \in db.listens \ db_at_start.listens : l.item_type = "episode"
    /\ \E l \in db_at_start.listens : l.item_type = "track"

\* The newest played_at of a listens table; NoTime when it is empty.
NewestPlayedAt(listens) ==
    IF listens = {} THEN NoTime
    ELSE CHOOSE t \in PlayedAts(listens) : \A u \in PlayedAts(listens) : u <= t

\* C35 (Spec): the high-water mark never decreases from one run to the next.
\* The value get_max_played_at returned to a run is the newest played_at
\* committed when the run started, and whatever the run does (commit, rollback
\* or neither) the newest committed played_at, which the next run will read,
\* is at no moment older than that.
C35_HighWaterMarkNeverDecreases ==
    /\ HighWaterMarkRead => max_played_at_db = NewestPlayedAt(db_at_start.listens)
    /\ NewestPlayedAt(db.listens) >= NewestPlayedAt(db_at_start.listens)

\* A run that found Listens read their newest played_at as its mark and
\* committed a newer Listen.
C35_Witness ==
    /\ pc = "returned"
    /\ HighWaterMarkRead
    /\ Committed
    /\ max_played_at_db # NoTime
    /\ Cardinality(db_at_start.listens) > 1
    /\ NewestPlayedAt(db.listens) > max_played_at_db

\* C36 (Spec): in every committed state a track's last_played_at is not null
\* and is at least the played_at of every committed Listen of that track.
C36_LastPlayedAtCoversListens ==
    \A t \in db.tracks :
        /\ t.last_played_at # NoTime
        /\ \A l \in db.listens :
               l.track_id = t.track_id => t.last_played_at >= l.played_at

\* A second run has committed a newer Listen of a track the first run stored,
\* and the track's last_played_at moved to it.
C36_Witness ==
    /\ pc = "returned"
    /\ Committed
    /\ \E t \in db.tracks, o \in db_at_start.tracks, l \in NewListens :
           /\ o.track_id = t.track_id
           /\ l.track_id = t.track_id
           /\ o.last_played_at < l.played_at
           /\ t.last_played_at = l.played_at

\* Every insert_listen of this run answered None, and there was one.
EveryInsertAnsweredNone ==
    /\ CallIndices("insert_listen") # {}
    /\ \A k \in CallIndices("insert_listen") : calls[k].res = "none"

\* A step of this run (the other invocation's commit leaves pc at the fetch).
StepOfThisRun ==
    ~(pc = "get_recently_played_tracks" /\ pc' = "get_recently_played_tracks")

\* C37 (SpecOverlapped): nothing a run wrote is persisted while none of its
\* insert_listen calls has returned a row; a run all of whose insert_listen
\* calls reported a duplicate returns with the session closed and commit never
\* called.
C37_NoNewListenNothingPersisted ==
    /\ [][(StepOfThisRun /\ ~InsertedARow') => db' = db]_vars
    /\ []((pc = "returned" /\ EveryInsertAnsweredNone) =>
            /\ CallIndices("commit") = {}
            /\ CallIndices("close") # {})

\* The other invocation committed an episode Listen at t; this run upserted
\* artist, album and track for a track item at t, was told duplicate, and
\* returned without an exception: no artist is committed.
C37_Witness ==
    /\ pc = "returned"
    /\ exc = "none"
    /\ EveryInsertAnsweredNone
    /\ \E k \in CallIndices("upsert_track") : calls[k].res = "row"
    /\ db.listens # {}
    /\ db.artists = {}
    /\ db.tracks = {}

\* rollback was called in this run.
RolledBack == CallIndices("rollback") # {}

\* C38 (Spec): within one run no rollback follows a commit that returned and
\* no commit follows a rollback; a run that has returned either committed, or
\* called rollback, or did neither, never two of these.
C38_CommitAndRollbackExclude ==
    /\ \A i \in CallIndices("commit"), j \in CallIndices("rollback") :
           /\ calls[i].res = "row" => j < i
           /\ i < j
    /\ ~(Committed /\ RolledBack)
    /\ pc = "returned" =>
          \/ Committed /\ ~RolledBack
          \/ RolledBack /\ ~Committed
          \/ ~Committed /\ ~RolledBack /\ (SessionOpened => CallIndices("close") # {})

\* A first run committed, and the second run's commit raised and was followed
\* by rollback.
C38_Witness ==
    /\ pc = "returned"
    /\ prev_committed
    /\ RolledBack
    /\ \E i \in CallIndices("commit") : calls[i].res = "raise"

\* The loop positions at which upsert_artist or upsert_album returned no row.
ArtistOrAlbumMissingPositions ==
    {calls[k].pos : k \in {j \in 1..Len(calls) :
                              /\ calls[j].op \in {"upsert_artist", "upsert_album"}
                              /\ calls[j].res = "none"}}

\* The upsert `op` made for the item at position p returned a row.
ReturnedRowAt(p, op) ==
    \E k \in CallIndices(op) : calls[k].pos = p /\ calls[k].res = "row"

\* `store` holds what the upserts that returned a row for the item at
\* position p wrote.
HoldsWritesOf(store, p) ==
    /\ ReturnedRowAt(p, "upsert_artist") =>
          \E r \in store.artists : r.artist_id = ArtistId
    /\ ReturnedRowAt(p, "upsert_album") =>
          \E r \in store.albums : r.album_id = AlbumId
    /\ ReturnedRowAt(p, "upsert_track") =>
          \E r \in store.tracks : /\ r.track_id = TrackId
                                  /\ r.last_played_at >= ItemAt(p).played_at

\* C39 (SpecSimulated): when upsert_artist or upsert_album returns no result
\* for a track item (and no call for the item raises), all three upserts of
\* the item are executed, insert_listen is not, and the loop goes on; what the
\* other upserts wrote is in the transaction while the loop runs and is in
\* the committed tables once the run has committed.
C39_SkippedItemsWritesStay ==
    \A p \in ArtistOrAlbumMissingPositions :
        ~RaisedAt(p) =>
            /\ \A op \in UpsertOps : \E k \in CallIndices(op) : calls[k].pos = p
            /\ ~\E k \in CallIndices("insert_listen") : calls[k].pos = p
            /\ idx > p
            /\ (pc \in {"loop", "commit"} /\ session_state = "active") =>
                  HoldsWritesOf(tx, p)
            /\ Committed => HoldsWritesOf(db, p)

\* upsert_artist returned no row for the second item processed, a track at 2;
\* upsert_track moved last_played_at to 2; the third item, an episode at 3,
\* was inserted and the run committed: the track row says 2 and no Listen
\* at 2 exists.
C39_Witness ==
    /\ pc = "returned"
    /\ Committed
    /\ Len(response.items) = 3
    /\ ItemAt(2) = RawItem("track", 2)
    /\ ItemAt(3) = RawItem("episode", 3)
    /\ \E k \in CallIndices("upsert_artist") : calls[k].pos = 2 /\ calls[k].res = "none"
    /\ ReturnedRowAt(2, "upsert_track")
    /\ \E r \in db.tracks : r.last_played_at = 2
    /\ PlayedAts(db.listens) = {1, 3}

====
